---------------------------- MODULE Spec2Model ----------------------------
(***************************************************************************)
(* A model of the release helper: the changelog reconciliation of          *)
(* prep_changelog (cli.py), the release-asset checksum protocol            *)
(* (create_release_commit / extract_release), and the release phases       *)
(* prep_env, tag_release and publish_release (lib.py, util.py).            *)
(*                                                                         *)
(* Text is a sequence of pieces.  A piece is a line break or a run of the  *)
(* program's characters that every text of the model holds as a whole (a   *)
(* marker comment, a PR reference "[#1]", a title, "# "): the program's    *)
(* searches and replacements never cut a piece in two.  Python's `in`,     *)
(* find, rfind, index, replace, splitlines, strip and join are modelled    *)
(* on these sequences as Python computes them on strings.                  *)
(***************************************************************************)
EXTENDS Integers, Sequences, FiniteSets, TLC

VARIABLES
    changelog,      \* the text of the changelog file
    clOrig,         \* the changelog file as it was first read
    clStaged,       \* the changelog text staged in the index (<<"none">>: nothing)
    clRuns,         \* the number of prep_changelog runs so far
    clLast,         \* the last operation on the changelog and what it saw
    clOutput        \* the file check_changelog writes the entry to

clVars == <<changelog, clOrig, clStaged, clRuns, clLast, clOutput>>

VARIABLES
    pkgVersion,     \* the version the package files declare
    setupPy,        \* whether the package has a setup.py (a Python package)
    dist,           \* the output directory: file name -> file content
    gitTags,        \* the tags of the local repository: name -> commit
    commits,        \* the number of commits made so far
    bumps,          \* the number of times the version-bump tool was run
    outputFile,     \* the env file prep_env writes (<<"none">>: not written)
    gitLast,        \* the last prep_env or tag_release run and how it ended
    active,         \* the pipeline whose working tree the variables above are
    parked,         \* the working tree of the other pipeline, if there is one
    cmdLast,        \* the commands the last check_links ran and how each ended
    shaLast         \* the last digest computed of a file, and the one before

gitVars == <<pkgVersion, setupPy, dist, gitTags, commits, bumps, outputFile, gitLast,
             active, parked, cmdLast, shaLast>>

VARIABLES
    hostRelease,    \* the release on the host the release url points to
    hostTags,       \* the tags pushed to the host: name -> commit
    tampers,        \* the number of changes made to the assets on the host
    exLast,         \* the last extract_release run and how it ended
    delLast,        \* the last delete_release run and how it ended
    otherReleases,  \* the releases the host had before: id, draft, created_at
    created         \* the releases created on the host: the pipeline and the tag

hostVars == <<hostRelease, hostTags, tampers, exLast, delLast, otherReleases, created>>

VARIABLES
    uploads,        \* the files handed to a publisher so far, as <<tool, name>>
    updates,        \* the number of release updates sent to the host
    pubLast         \* the last publish_release run and how it ended

pubVars == <<uploads, updates, pubLast>>

VARIABLES
    defaultLog,     \* the changelog file of the default branch
    pushedCommits,  \* the number of the last local commit pushed to the branch
    prBranches,     \* the pull request branches pushed to the host
    pulls,          \* the pull requests opened on the host
    remoteLast      \* the last run of a phase that may push, and what it saw

prVars == <<defaultLog, pushedCommits, prBranches, pulls, remoteLast>>

(***************************************************************************)
(* Bounds of the model.                                                    *)
(***************************************************************************)
MaxRuns == 2
MaxTampers == 1
MaxBumps == 2
MaxCommits == 2
MaxUpdates == 2

(***************************************************************************)
(* Python string operations on sequences.                                  *)
(***************************************************************************)
NL == "\n"

\* s[i:j] with 1-based inclusive-exclusive bounds i..j-1.
Slice(s, i, j) == SubSeq(s, i, j - 1)

\* t occurs in s starting at position i.
OccursAt(s, t, i) ==
    /\ i >= 1
    /\ i + Len(t) - 1 <= Len(s)
    /\ \A k \in 1..Len(t) : s[i + k - 1] = t[k]

\* The first position from i on where t occurs in s, 0 when there is none.
RECURSIVE FindFrom(_, _, _)
FindFrom(s, t, i) ==
    IF i + Len(t) - 1 > Len(s) THEN 0
    ELSE IF OccursAt(s, t, i) THEN i
    ELSE FindFrom(s, t, i + 1)

\* Python s.find(t): the first position of t in s, 0 when there is none
\* (Python's -1; positions are 1-based here).
Find(s, t) == FindFrom(s, t, 1)

\* Python `t in s`.
Contains(s, t) == Find(s, t) # 0

\* The last position up to i where t occurs in s, 0 when there is none.
RECURSIVE RFindFrom(_, _, _)
RFindFrom(s, t, i) ==
    IF i < 1 THEN 0
    ELSE IF OccursAt(s, t, i) THEN i
    ELSE RFindFrom(s, t, i - 1)

\* Python s.rfind(t): the last position of t in s, 0 when there is none.
RFind(s, t) == RFindFrom(s, t, Len(s) - Len(t) + 1)

\* Python s.count(t) for a non-empty t: non-overlapping occurrences, left to right.
RECURSIVE CountFrom(_, _, _)
CountFrom(s, t, i) ==
    LET f == FindFrom(s, t, i)
    IN  IF f = 0 THEN 0 ELSE 1 + CountFrom(s, t, f + Len(t))

Count(s, t) == CountFrom(s, t, 1)

\* Python s.replace(old, new) for a non-empty old: every non-overlapping
\* occurrence, left to right.
RECURSIVE ReplaceFrom(_, _, _, _)
ReplaceFrom(s, old, new, i) ==
    LET f == FindFrom(s, old, i)
    IN  IF f = 0 THEN SubSeq(s, i, Len(s))
        ELSE SubSeq(s, i, f - 1) \o new \o ReplaceFrom(s, old, new, f + Len(old))

Replace(s, old, new) == ReplaceFrom(s, old, new, 1)

\* Python s.splitlines(): the lines of s without their line breaks; a final
\* line break opens no further line, and "" has no line.
RECURSIVE SplitLinesFrom(_, _)
SplitLinesFrom(s, i) ==
    LET f == FindFrom(s, <<NL>>, i)
    IN  IF i > Len(s) THEN << >>
        ELSE IF f = 0 THEN <<SubSeq(s, i, Len(s))>>
        ELSE <<SubSeq(s, i, f - 1)>> \o SplitLinesFrom(s, f + 1)

SplitLines(s) == SplitLinesFrom(s, 1)

\* Python sep.join(lines).
RECURSIVE Join(_, _)
Join(lines, sep) ==
    IF Len(lines) = 0 THEN << >>
    ELSE IF Len(lines) = 1 THEN lines[1]
    ELSE lines[1] \o sep \o Join(Tail(lines), sep)

IsSpace(c) == c = NL

\* Python s.strip(): s without leading and trailing white space.
RECURSIVE LStrip(_)
LStrip(s) == IF Len(s) > 0 /\ IsSpace(s[1]) THEN LStrip(Tail(s)) ELSE s

RECURSIVE RStrip(_)
RStrip(s) ==
    IF Len(s) > 0 /\ IsSpace(s[Len(s)]) THEN RStrip(SubSeq(s, 1, Len(s) - 1)) ELSE s

Strip(s) == LStrip(RStrip(s))

\* Python s.startswith(t).
StartsWith(s, t) == OccursAt(s, t, 1)


(***************************************************************************)
(* Versions: is_prerelease and the canonical form of PEP 440.  A version   *)
(* is a sequence of characters, with "rc", "post" and "dev" as pieces.     *)
(***************************************************************************)
IsDigit(c) == c \in {"0", "1", "2", "3", "4", "5", "6", "7", "8", "9"}

\* The length of the run of digits of s that starts at pos.
RECURSIVE DigitRun(_, _)
DigitRun(s, pos) ==
    IF pos > Len(s) \/ ~IsDigit(s[pos]) THEN 0 ELSE 1 + DigitRun(s, pos + 1)

\* re.match("([0-9]+.[0-9]+.[0-9]+)", s) as the backtracking matcher runs
\* it: stages 1, 3, 5 are the greedy [0-9]+, stages 2, 4 the "." that
\* takes any character.  The result is the position after the match, 0
\* when there is no match.
RECURSIVE ReMatch(_, _, _), ReDigits(_, _, _, _)
ReMatch(s, pos, stage) ==
    IF stage = 6 THEN pos
    ELSE IF stage \in {2, 4}
    THEN (IF pos > Len(s) \/ s[pos] = NL THEN 0 ELSE ReMatch(s, pos + 1, stage + 1))
    ELSE ReDigits(s, pos, stage, DigitRun(s, pos))

ReDigits(s, pos, stage, k) ==
    IF k = 0 THEN 0
    ELSE LET end == ReMatch(s, pos + k, stage + 1)
         IN  IF end # 0 THEN end ELSE ReDigits(s, pos, stage, k - 1)

\* is_prerelease: "error" when the pattern does not match and .groups()
\* is taken of None.
IsPrerelease(s) ==
    LET end == ReMatch(s, 1, 1)
    IN  IF end = 0 THEN "error"
        ELSE IF SubSeq(s, 1, end - 1) # s THEN "true" ELSE "false"

\* The canonical form of PEP 440 (is_canonical): N(.N)*[{a|b|rc}N][.postN][.devN]
\* where N is 0 or a number without a leading zero.
CanonNum(s, pos) ==
    IF pos > Len(s) \/ ~IsDigit(s[pos]) THEN 0
    ELSE IF s[pos] = "0" THEN pos + 1
    ELSE pos + DigitRun(s, pos)

RECURSIVE CanonRelease(_, _)
CanonRelease(s, pos) ==
    IF pos <= Len(s) /\ s[pos] = "." /\ CanonNum(s, pos + 1) # 0
    THEN CanonRelease(s, CanonNum(s, pos + 1))
    ELSE pos

CanonPre(s, pos) ==
    IF pos <= Len(s) /\ s[pos] \in {"a", "b", "rc"} /\ CanonNum(s, pos + 1) # 0
    THEN CanonNum(s, pos + 1) ELSE pos

CanonSuffix(s, pos, word) ==
    IF pos + 1 <= Len(s) /\ s[pos] = "." /\ s[pos + 1] = word
       /\ CanonNum(s, pos + 2) # 0
    THEN CanonNum(s, pos + 2) ELSE pos

IsCanonical(s) ==
    /\ CanonNum(s, 1) # 0
    /\ CanonSuffix(s, CanonSuffix(s, CanonPre(s, CanonRelease(s, CanonNum(s, 1))),
                                  "post"), "dev") = Len(s) + 1

\* The versions of the model: the one the package starts with, a final
\* release, a release candidate, a version of two components, the
\* development version that follows a release, and one that is not
\* canonical, and a prerelease as npm writes it.
V100 == <<"1", ".", "0", ".", "0">>
V101 == <<"1", ".", "0", ".", "1">>
V101rc0 == <<"1", ".", "0", ".", "1", "rc", "0">>
V10 == <<"1", ".", "0">>
V102dev0 == <<"1", ".", "0", ".", "2", ".", "dev", "0">>
Va101 == <<"a", "1", ".", "0", ".", "1">>
V101dashrc0 == <<"1", ".", "0", ".", "1", "-", "rc", "0">>
VersionSpecs == {V101, V101rc0, V10, Va101, V101dashrc0}

\* The tag of a version: f"v{version}".
TagName(v) == <<"v">> \o v

(***************************************************************************)
(* The release assets: compute_sha256, create_release_commit and the       *)
(* checksum verification of extract_release.                               *)
(***************************************************************************)
BUF_SIZE == 65536

\* File contents are byte sequences; the second is the first cut short.
Contents == {<<0, 1>>, <<0>>}

\* hashlib's sha256 as a running state: update() takes the bytes in, one by
\* one, and hexdigest() names the state.  Distinct byte sequences end in
\* distinct states (SHA-256 is taken to be free of collisions).
\* The state is kept within ShaModulus, a prime: a change of one byte
\* changes the state whatever follows.  The bytes are taken half by half,
\* the first half before the second, which is the same as one by one.
ShaModulus == 536870909

RECURSIVE Sha256Update(_, _)
Sha256Update(h, data) ==
    IF Len(data) = 0 THEN h
    ELSE IF Len(data) = 1 THEN (h * 3 + data[1] + 1) % ShaModulus
    ELSE CHOOSE r \in {Sha256Update(m, SubSeq(data, Len(data) \div 2 + 1, Len(data))) :
                        m \in {Sha256Update(h, SubSeq(data, 1, Len(data) \div 2))}} : TRUE

HexDigest(h) == ToString(h)

\* The characters of hexdigest(): the state as 64 hexadecimal digits, in
\* lower case.
HexDigit(d) ==
    <<"0", "1", "2", "3", "4", "5", "6", "7", "8", "9", "a", "b", "c", "d", "e", "f">>[d + 1]

RECURSIVE HexDigits(_, _)
HexDigits(h, n) ==
    IF n = 0 THEN << >> ELSE HexDigits(h \div 16, n - 1) \o <<HexDigit(h % 16)>>

\* A read that stops after the first chunk.
ReadFirstChunk(h, bytes, pos) ==
    Sha256Update(h, SubSeq(bytes, pos, IF pos + BUF_SIZE - 1 < Len(bytes)
                                       THEN pos + BUF_SIZE - 1 ELSE Len(bytes)))

\* compute_sha256: read the file in chunks of BUF_SIZE until a read
\* returns nothing, updating the hash with each chunk.
RECURSIVE ReadAndHash(_, _, _)
ReadAndHash(h, bytes, pos) ==
    LET data == SubSeq(bytes, pos, IF pos + BUF_SIZE - 1 < Len(bytes)
                                   THEN pos + BUF_SIZE - 1 ELSE Len(bytes))
    IN  IF Len(data) = 0 THEN h
        ELSE ReadAndHash(Sha256Update(h, data), bytes, pos + BUF_SIZE)

ComputeSha256(bytes) == HexDigest(ReadAndHash(0, bytes, 1))

\* The file names of the output directory, in the order sorted() gives
\* their paths: a wheel, an npm tarball, and the tarball of a scoped
\* package whose name ends with the name of the first tarball.
FooWhl == <<"foo-1.0.1", "-py3-none-any", ".whl">>
FooTgz == <<"foo-1.0.1", ".tgz">>
ScopeFooTgz == <<"scope-", "foo-1.0.1", ".tgz">>
SortedNames == <<FooWhl, FooTgz, ScopeFooTgz>>

\* The tarballs of an npm package with a workspace, and the output
\* directories its build may leave: every choice of files and contents.
Names == {FooTgz, ScopeFooTgz}
Dirs == UNION {[S -> Contents] : S \in SUBSET Names}
EmptyDir == [n \in {} |-> <<0>>]

\* The names of a directory in the order the file system lists them.
ListedFiles(dir) ==
    (IF ScopeFooTgz \in DOMAIN dir THEN <<ScopeFooTgz>> ELSE << >>)
    \o (IF FooTgz \in DOMAIN dir THEN <<FooTgz>> ELSE << >>)
    \o (IF FooWhl \in DOMAIN dir THEN <<FooWhl>> ELSE << >>)

\* The names of a directory in sorted order.
RECURSIVE SortedFrom(_, _)
SortedFrom(dir, i) ==
    IF i > Len(SortedNames) THEN << >>
    ELSE (IF SortedNames[i] \in DOMAIN dir THEN <<SortedNames[i]>> ELSE << >>)
         \o SortedFrom(dir, i + 1)

SortedFiles(dir) == SortedFrom(dir, 1)

\* The line of the commit message for one file: "{path}: {sha256}".
ShaLine(dir, name) == <<"dist/">> \o name \o <<": ", ComputeSha256(dir[name])>>

\* A message that would list the first file only.
FirstShaLine(dir, files) ==
    IF Len(files) = 0 THEN << >> ELSE <<NL, NL>> \o ShaLine(dir, files[1])

RECURSIVE ShaLines(_, _)
ShaLines(dir, files) ==
    IF Len(files) = 0 THEN << >>
    ELSE <<NL, NL>> \o ShaLine(dir, files[1]) \o ShaLines(dir, Tail(files))

\* create_release_commit: the message of the release commit as git log
\* prints it (each -m a paragraph), <<"none">> when there is no file to
\* release and the function raises.
CreateReleaseCommit(version, dir) ==
    IF DOMAIN dir = {} THEN <<"none">>
    ELSE <<"Publish ">> \o version \o <<NL, NL, "SHA256 hashes:">>
         \o ShaLines(dir, SortedFiles(dir))

\* The inner loop of the verification: some line of the commit message
\* contains the asset's name and the digest of the downloaded file.
RECURSIVE ValidIn(_, _, _)
ValidIn(lines, name, sha) ==
    IF Len(lines) = 0 THEN FALSE
    ELSE \/ (Contains(lines[1], name) /\ Contains(lines[1], <<sha>>))
         \/ ValidIn(Tail(lines), name, sha)

\* A verification loop that finds every asset valid.
NoneInvalid(assets, dir, commit_message) == << >>

\* The verification loop of extract_release over the assets in order: the
\* name of the first asset found invalid, << >> when all are valid.
RECURSIVE FirstInvalid(_, _, _)
FirstInvalid(assets, dir, commit_message) ==
    IF Len(assets) = 0 THEN << >>
    ELSE IF ~ValidIn(SplitLines(commit_message), assets[1],
                     ComputeSha256(dir[assets[1]]))
    THEN assets[1]
    ELSE FirstInvalid(Tail(assets), dir, commit_message)

(***************************************************************************)
(* The changelog: markers, the generated entry, prep_changelog.            *)
(***************************************************************************)
START_MARKER == "<!-- <START NEW CHANGELOG ENTRY> -->"
END_MARKER == "<!-- <END NEW CHANGELOG ENTRY> -->"

\* The versions get_version() may return.  The second one has the first as
\* a proper prefix (1.0.1 and 1.0.10).
Version1 == <<"1.0.1">>
Version10 == <<"1.0.1", "0">>
Versions == {Version1, Version10}

\* The heading "## {version}": "#" and "# " are pieces, so that the text
\* "# {version}" the program looks for lies inside it.
Heading(version) == <<"#", "# ">> \o version

\* The pull requests of the activity feed, each with its title.
PrNumbers == {1, 2}
PrRef(n) ==
    IF n = 1 THEN "[#1]" ELSE IF n = 2 THEN "[#2]" ELSE IF n = 3 THEN "[#3]" ELSE "[#4]"
PrRefs == {PrRef(n) : n \in 1..4}
Title(n) ==
    IF n = 1 THEN "defining contributions "
    ELSE IF n = 2 THEN "updating CLI "
    ELSE "fixing link to Changelog "

\* What generate_activity_md returns for the merged pull requests prs (a
\* sequence of PR numbers): nothing when there are none, else a range
\* heading, the full-changelog link, the "## Merged PRs" list with "* "
\* bullets (title, PR reference; the links after it are left out) and the
\* contributors block.
\* The title of pull request 4 cites pull request 1.
PrLine(n) ==
    IF n = 4 THEN <<"* ", "following up ", PrRef(1), " ", PrRef(4)>>
    ELSE <<"* ", Title(n), PrRef(n)>>
RECURSIVE PrLines(_)
PrLines(prs) ==
    IF Len(prs) = 0 THEN << >>
    ELSE IF Len(prs) = 1 THEN PrLine(prs[1])
    ELSE PrLine(prs[1]) \o <<NL>> \o PrLines(Tail(prs))
ActivityMd(prs) ==
    IF Len(prs) = 0 THEN << >>
    ELSE <<"# ", "master@{2019-09-01}...master@{2019-11-01}", NL, NL,
           "(", "[full changelog]", "(compare-url))", NL, NL,
           "#", "# ", "Merged PRs", NL, NL>>
         \o PrLines(prs)
         \o <<NL, NL, "#", "# ", "Contributors", " to this release",
              NL, NL, "@choldgraf", NL>>

\* re.search(r"\[#\d+\]", line): the first PR reference of the line, "" when
\* the line has none.
RECURSIVE FirstPrRefFrom(_, _)
FirstPrRefFrom(line, i) ==
    IF i > Len(line) THEN ""
    ELSE IF line[i] \in PrRefs THEN line[i]
    ELSE FirstPrRefFrom(line, i + 1)

FirstPrRef(line) == FirstPrRefFrom(line, 1)

Max(S) == CHOOSE x \in S : \A y \in S : y <= x

\* get_changelog_entry, from the activity text md on.
GetChangelogEntry(version, md) ==
    IF Len(md) = 0 THEN Heading(version) \o <<NL, "No merged PRs">>
    ELSE
      LET lines == SplitLines(md)
          fc == {i \in 1..Len(lines) : Contains(lines[i], <<"[full changelog]">>)}
          full_changelog ==
              IF fc = {} THEN << >>
              ELSE Replace(lines[Max(fc)], <<"[full changelog]">>, <<"[Full Changelog]">>)
          merged == {i \in 1..Len(lines) :
                        /\ i \notin fc
                        /\ StartsWith(Strip(lines[i]), <<"#", "# ", "Merged PRs">>)}
          \* md[start:] with start = ind + 1 (0-based), or -1 when no line matched
          first == IF merged = {} THEN Len(lines) ELSE Max(merged) + 1
          prs0 == Strip(Join(Slice(lines, first, Len(lines) + 1), <<NL>>))
          prs1 == Replace(prs0, <<"#", "# ", "Contributors">>,
                                <<"#", "#", "# ", "Contributors">>)
          prs2 == IF StartsWith(prs1, <<"* ">>)
                  THEN <<"- ">> \o Slice(prs1, 2, Len(prs1) + 1)
                  ELSE prs1
          prs3 == Replace(prs2, <<NL, "* ">>, <<NL, "- ">>)
      IN  Strip(<<NL>> \o Heading(version) \o <<NL, NL>> \o full_changelog
                \o <<NL, NL>> \o prs3 \o <<NL>>)

\* A merge that keeps the generated line is not what the loop does.
MergeLineNewWins(line, old_lines) == line

\* One line of the merge loop: a generated line with a PR reference becomes
\* the last line of the old region that carries the same reference.
MergeLine(line, old_lines) ==
    LET pr == FirstPrRef(line)
        hits == {i \in 1..Len(old_lines) : Contains(old_lines[i], <<pr>>)}
    IN  IF pr = "" \/ hits = {} THEN line ELSE old_lines[Max(hits)]

\* The merge loop over the lines of the new entry.
RECURSIVE MergeLines(_, _)
MergeLines(lines, old_lines) ==
    IF Len(lines) = 0 THEN << >>
    ELSE <<MergeLine(lines[1], old_lines)>> \o MergeLines(Tail(lines), old_lines)

\* An insertion that would write the new entry over the file.
InsertEntryOverwrite(doc, new_entry) == new_entry

\* An insertion that would put the new entry below the END marker.
InsertEntryBelowEnd(doc, new_entry) ==
    Replace(doc, <<END_MARKER>>, <<END_MARKER, NL, NL>> \o new_entry)

\* An insertion that would write the new entry over the old marker region.
InsertEntryOverRegion(doc, new_entry) ==
    SubSeq(doc, 1, Find(doc, <<START_MARKER>>) - 1) \o new_entry
    \o SubSeq(doc, Find(doc, <<END_MARKER>>) + 1, Len(doc))

\* The first-time branch: drop the END marker with the line break(s) after
\* it, then put the new entry in the place of the START marker.
InsertEntry(doc, new_entry) ==
    Replace(Replace(Replace(doc, <<END_MARKER, NL, NL>>, << >>),
                    <<END_MARKER, NL>>, << >>),
            <<START_MARKER>>, new_entry)

\* A merge that would keep the lines of the old region below the new ones.
MergeEntryKeepingOld(doc, prev_entry, new_entry) ==
    Replace(doc, prev_entry,
            SubSeq(new_entry, 1, Len(new_entry) - 1)
            \o SubSeq(prev_entry, 2, Len(prev_entry)))

\* The re-run branch: replace the old region, markers included, by the merged lines.
MergeEntry(doc, prev_entry, new_entry) ==
    LET lines == SplitLines(new_entry)
        old_lines == SplitLines(prev_entry)
    IN  Replace(doc, prev_entry, Join(MergeLines(lines, old_lines), <<NL>>))

\* The validation at the head of prep_changelog: "" when it passes.
ValidateMarkers(doc) ==
    IF ~Contains(doc, <<START_MARKER>>) \/ ~Contains(doc, <<END_MARKER>>)
    THEN "Missing insert marker for changelog"
    ELSE IF Find(doc, <<START_MARKER>>) # RFind(doc, <<START_MARKER>>)
    THEN "Insert marker appears more than once in changelog"
    ELSE ""

\* changelog[index(START) : index(END) + len(END)]
PrevEntry(doc) ==
    Slice(doc, Find(doc, <<START_MARKER>>), Find(doc, <<END_MARKER>>) + 1)

\* Whether prep_changelog augments an existing entry of this version.
IsRerun(prev_entry, version) == Contains(prev_entry, <<"# ">> \o version)

\* prep_changelog from the text read to the text written:
\* [error, path, doc], doc being the text written (unchanged on error).
PrepChangelog(doc, version, md) ==
    IF ValidateMarkers(doc) # ""
    THEN [error |-> ValidateMarkers(doc), path |-> "none", doc |-> doc]
    ELSE
      LET entry == GetChangelogEntry(version, md)
          new_entry == <<START_MARKER, NL, NL>> \o entry \o <<NL, NL, END_MARKER>>
          prev_entry == PrevEntry(doc)
      IN  IF IsRerun(prev_entry, version)
          THEN [error |-> "", path |-> "merge",
                doc |-> MergeEntry(doc, prev_entry, new_entry)]
          ELSE [error |-> "", path |-> "insert", doc |-> InsertEntry(doc, new_entry)]

\* The whole file taken for the entry.
WholeFile(doc) == doc

\* The text between the markers, as check_changelog and draft_release take
\* it: changelog[start + len(START) : end], with find's first occurrences.
ExtractCurrent(doc) ==
    Slice(doc, Find(doc, <<START_MARKER>>) + 1, Find(doc, <<END_MARKER>>))


\* Exactly one START and one END marker, START before END.
WellFormed(doc) ==
    /\ Count(doc, <<START_MARKER>>) = 1
    /\ Count(doc, <<END_MARKER>>) = 1
    /\ Find(doc, <<START_MARKER>>) < Find(doc, <<END_MARKER>>)

\* The changelog files a repository may start with: a title or none, the
\* marker pair with one or two line breaks between, and after the END
\* marker nothing, a line break, or an older section.
OldSection == <<NL, NL, "#", "# ", "0.0.1", NL, NL, "Initial commit", NL>>
WellFormedDocs ==
    {pre \o <<START_MARKER>> \o gap \o <<END_MARKER>> \o rest :
        pre \in {<<"# ", "Changelog", NL, NL>>},
        gap \in {<<NL>>, <<NL, NL>>},
        rest \in {<< >>, <<NL>>, OldSection}}
MalformedDocs ==
    { <<"# ", "Changelog", NL>>,
      <<START_MARKER, NL, NL>> \o OldSection,
      <<START_MARKER, NL, START_MARKER, NL, END_MARKER, NL>>,
      <<START_MARKER, NL, END_MARKER, NL, END_MARKER, NL>>,
      <<END_MARKER, NL, NL, START_MARKER, NL>> }
InitDocs == WellFormedDocs \cup MalformedDocs

\* The merged pull requests the activity feed may report.
PrSeqs == {<< >>, <<1>>, <<2>>, <<1, 2>>}

NoText == <<"none">>

InitChangelog ==
    /\ changelog \in InitDocs
    /\ clOrig = changelog
    /\ clStaged = NoText
    /\ clOutput = NoText
    /\ clRuns = 0
    /\ clLast = [op |-> "none", version |-> << >>, entry |-> << >>,
                 prev |-> << >>, path |-> "none", error |-> ""]

\* prep_changelog (the BuildChangelog phase): read the file, validate,
\* generate the entry, insert or merge, write the file, stage it.
BuildChangelog(version, prs) ==
    /\ clRuns < MaxRuns
    /\ \E r \in {PrepChangelog(changelog, version, ActivityMd(prs))} :
           /\ changelog' = r.doc
           /\ clStaged' = IF r.error = "" THEN r.doc ELSE clStaged
           /\ clLast' = [op |-> "build", version |-> version,
                         entry |-> IF r.error = "" THEN GetChangelogEntry(version, ActivityMd(prs))
                                   ELSE << >>,
                         prev |-> changelog, path |-> r.path, error |-> r.error]
    /\ clRuns' = clRuns + 1
    /\ UNCHANGED <<clOrig, clOutput>>

\* A maintainer rewords the title of a pull request listed in the marker
\* region, between two runs (test_build_changelog_existing).
EditedTitle(n) == IF n = 1 THEN "Definining contributions " ELSE "updating the CLI "
HandEdit(n) ==
    /\ clRuns < MaxRuns
    /\ ValidateMarkers(changelog) = ""
    /\ Contains(PrevEntry(changelog), <<Title(n)>>)
    /\ changelog' = Replace(changelog, <<Title(n)>>, <<EditedTitle(n)>>)
    /\ clLast' = [op |-> "edit", version |-> << >>, entry |-> << >>,
                  prev |-> changelog, path |-> "none", error |-> ""]
    /\ UNCHANGED <<clOrig, clStaged, clRuns, clOutput>>

(***************************************************************************)
(* check_changelog.                                                        *)
(***************************************************************************)
\* str.lower() on the pieces that hold capitals.
Lower(c) ==
    IF c = "fixing link to Changelog " THEN "fixing link to changelog "
    ELSE IF c = "[Full Changelog]" THEN "[full changelog]"
    ELSE IF c = "Changelog" THEN "changelog"
    ELSE IF c = "Definining contributions " THEN "definining contributions "
    ELSE c

\* `"changelog" in line.lower()`: a piece of the line holds the word.
HasChangelog(line) ==
    \E i \in 1..Len(line) :
        Lower(line[i]) \in {"fixing link to changelog ", "[full changelog]", "changelog"}

\* re.findall(r"\[#(\d+)\]", text): the PR references of the text.
FindAllPrs(text) == {text[i] : i \in 1..Len(text)} \cap PrRefs

\* The raw references let off: those on a raw line that mentions the changelog.
Skipped(raw_entry) ==
    {pr \in FindAllPrs(raw_entry) :
        \E i \in 1..Len(SplitLines(raw_entry)) :
            /\ Contains(SplitLines(raw_entry)[i], <<pr>>)
            /\ HasChangelog(SplitLines(raw_entry)[i])}

\* No final reference is looked up in the raw entry.
UnknownNone(final_entry, raw_entry) == {}

\* The final references the raw entry does not hold.
Unknown(final_entry, raw_entry) ==
    {pr \in FindAllPrs(final_entry) : ~Contains(raw_entry, <<pr>>)}

\* check_changelog up to its verdict: "" or the message of the ValueError.
CheckChangelogError(doc, version, md) ==
    IF Find(doc, <<START_MARKER>>) = 0 \/ Find(doc, <<END_MARKER>>) = 0
    THEN "Missing new changelog entry delimiter(s)"
    ELSE IF Find(doc, <<START_MARKER>>) # RFind(doc, <<START_MARKER>>)
    THEN "Insert marker appears more than once in changelog"
    ELSE
      LET final_entry == ExtractCurrent(doc)
          raw_entry == GetChangelogEntry(version, md)
      IN  IF ~Contains(final_entry, <<"# ">> \o version)
          THEN "Did not find entry"
          ELSE IF \E pr \in FindAllPrs(raw_entry) \ Skipped(raw_entry) :
                     ~Contains(final_entry, <<pr>>)
          THEN "Missing PR in changelog"
          ELSE IF Unknown(final_entry, raw_entry) # {}
          THEN "PR does not belong in changelog"
          ELSE ""

\* check_changelog: read the file, take the final entry between the
\* markers, derive the raw entry, compare, write the final entry to the
\* output file if one is given.
CheckChangelog(version, prs, output) ==
    /\ \E error \in {CheckChangelogError(changelog, version, ActivityMd(prs))} :
         /\ clLast' = [op |-> "check", version |-> version,
                       entry |-> GetChangelogEntry(version, ActivityMd(prs)),
                       prev |-> changelog, path |-> "none", error |-> error]
         /\ clOutput' = IF error = "" /\ output THEN ExtractCurrent(changelog)
                        ELSE clOutput
    /\ UNCHANGED <<changelog, clOrig, clStaged, clRuns>>

(***************************************************************************)
(* The repository, the output directory and the release on the host:       *)
(* prep_env, the build, tag_release, draft_release, extract_release.       *)
(***************************************************************************)
\* A commit: its number, its message, and (to state properties with) the
\* output directory at the time it was made.
Commit(id, message, files) == [id |-> id, message |-> message, files |-> files]

\* A commit of an earlier release, made before the runs of the model.
OldCommit == Commit(0, <<"Publish ", "earlier">>, EmptyDir)

\* No commit was made.
NoCommit == Commit(0, NoText, EmptyDir)

NoTags == [t \in {} |-> OldCommit]

\* f extended by g: the entries of g for the names f does not have.
Merge(f, g) == [t \in DOMAIN f \cup DOMAIN g |-> IF t \in DOMAIN f THEN f[t] ELSE g[t]]

\* The branches of the repository: the one released from, and the default.
Branch == "1.x"
DefaultBranch == "main"

NoRelease == [exists |-> FALSE, draft |-> TRUE, tag_name |-> << >>,
              target_commitish |-> "", prerelease |-> "false", body |-> << >>,
              assets |-> EmptyDir]

NoRun == [op |-> "none", error |-> "", printed |-> {}, tag |-> << >>,
          tagsBefore |-> NoTags, bumpsBefore |-> 0,
          outputBefore |-> NoText, dist |-> EmptyDir, commitsBefore |-> 0,
          commit |-> NoCommit]

NoExtract == [op |-> "none", dry_run |-> FALSE, error |-> "", asset |-> << >>,
              message |-> NoText, downloaded |-> EmptyDir, steps |-> << >>]

NoDelete == [op |-> "none", error |-> "", url |-> << >>, requests |-> << >>,
             releaseBefore |-> NoRelease]

NoCommands == [op |-> "none", commands |-> << >>, error |-> ""]

\* The last digest: of which file, the places of the file changed since, and
\* the same of the digest before.
NoDigest == [op |-> "none", name |-> << >>, size |-> 0, digest |-> "",
             chars |-> << >>, edited |-> {},
             before |-> [name |-> << >>, digest |-> "", edited |-> {}]]

\* No other pipeline.
NoParked == [pkgVersion |-> << >>, setupPy |-> FALSE, dist |-> EmptyDir,
             gitTags |-> NoTags, commits |-> 0, bumps |-> 0,
             outputFile |-> NoText, gitLast |-> NoRun]

InitGit ==
    /\ pkgVersion = V100
    /\ setupPy = TRUE
    /\ dist = EmptyDir
    /\ gitTags = NoTags
    /\ commits = 0
    /\ bumps = 0
    /\ outputFile = NoText
    /\ gitLast = NoRun
    /\ active = 1
    /\ cmdLast = NoCommands
    /\ shaLast = NoDigest
    /\ parked = NoParked

InitHost ==
    /\ hostRelease = NoRelease
    /\ hostTags = NoTags
    /\ tampers = 0
    /\ exLast = NoExtract
    /\ delLast = NoDelete
    /\ otherReleases = {}
    /\ created = {}

NoBefore == [op |-> "none", dry_run |-> FALSE, error |-> "",
             version |-> << >>, post |-> << >>, assets |-> {}]

NoRemote == [op |-> "none", dry_run |-> FALSE, error |-> "", version |-> << >>,
             tagsBefore |-> NoTags, pushedBefore |-> 0,
             branchesBefore |-> {}, pullsBefore |-> {},
             post |-> << >>, assets |-> {}, create_ok |-> TRUE, before |-> NoBefore,
             tag |-> << >>, merged_tags |-> {}, logBefore |-> NoText,
             commitsBefore |-> 0, by |-> 1, releasesBefore |-> {}, fetched |-> {}]

\* The record of a run: what it was given, how it ended, what the host held
\* before it.
RemoteRun(op, dry_run, error) ==
    [op |-> op, dry_run |-> dry_run, error |-> error, version |-> pkgVersion,
     tagsBefore |-> hostTags, pushedBefore |-> pushedCommits,
     branchesBefore |-> prBranches, pullsBefore |-> pulls,
     post |-> << >>, assets |-> {}, create_ok |-> TRUE, before |-> NoBefore,
     tag |-> << >>, merged_tags |-> {}, logBefore |-> NoText, commitsBefore |-> 0,
     by |-> active, releasesBefore |-> otherReleases, fetched |-> {}]

InitRemote ==
    /\ defaultLog = NoText
    /\ pushedCommits = 0
    /\ prBranches = {}
    /\ pulls = {}
    /\ remoteLast = NoRemote

\* A check that never finds the tag.
TagExistsNever(tag_name, tags) == FALSE

\* `tag_name in run("git --no-pager tag").splitlines()`.
TagExists(tag_name, tags) == tag_name \in DOMAIN tags

\* No package is taken for a Python package.
ChecksNever(setup_py) == FALSE

\* `util.SETUP_PY.exists()`: the version of a Python package is checked.
ChecksCanonical(setup_py) == setup_py

\* prep_env: clear the output directory, fetch the tags (prep_git), run
\* the version-bump tool, read the version back, check that it is canonical
\* (Python packages only), bail if its tag exists, print version= and
\* is_prerelease=, write the output file if one is asked for.
PrepEnv(version_spec, bump_ok, output) ==
    /\ bumps < MaxBumps
    /\ dist' = EmptyDir
    /\ gitTags' = Merge(gitTags, hostTags)
    /\ bumps' = bumps + 1
    /\ pkgVersion' = IF bump_ok THEN version_spec ELSE pkgVersion
    /\ \E r \in {
         IF ~bump_ok
         THEN [error |-> "bump failed", printed |-> {"branch", "repository"}]
         ELSE IF ChecksCanonical(setupPy) /\ ~IsCanonical(version_spec)
         THEN [error |-> "Invalid version", printed |-> {"branch", "repository"}]
         ELSE IF TagExists(TagName(version_spec), Merge(gitTags, hostTags))
         THEN [error |-> "Tag already exists", printed |-> {"branch", "repository"}]
         ELSE IF IsPrerelease(version_spec) = "error"
         THEN [error |-> "AttributeError",
               printed |-> {"branch", "repository", "version"}]
         ELSE [error |-> "",
               printed |-> {"branch", "repository", "version", "is_prerelease"}] } :
           /\ gitLast' = [op |-> "prep", error |-> r.error, printed |-> r.printed,
                          tag |-> TagName(pkgVersion'), tagsBefore |-> gitTags',
                          bumpsBefore |-> bumps, outputBefore |-> outputFile,
                          dist |-> dist, commitsBefore |-> commits,
                          commit |-> NoCommit]
           /\ outputFile' = IF r.error = "" /\ output
                            THEN <<"VERSION=">> \o version_spec
                                 \o <<NL, "IS_PRERELEASE=", IsPrerelease(version_spec)>>
                            ELSE outputFile
    /\ UNCHANGED <<setupPy, active, parked, shaLast, cmdLast, commits>>

\* The build phase fills the output directory (python.build_dist,
\* npm.build_dist): wheels for a Python package, tarballs for an npm one.
BuildOutputs ==
    IF setupPy THEN {[n \in {FooWhl} |-> <<0, 1>>]}
    ELSE {[n \in {FooTgz} |-> <<0, 1>>],
          [n \in {FooTgz, ScopeFooTgz} |-> IF n = FooTgz THEN <<0, 1>> ELSE <<0>>]}

BuildDist(dir) ==
    /\ dist = EmptyDir
    /\ dir \in BuildOutputs
    /\ dist' = dir
    /\ UNCHANGED <<pkgVersion, setupPy, active, parked, shaLast, cmdLast, gitTags, commits, bumps, outputFile, gitLast>>

\* The tag of a workspace package: f"{name}@{version}".
WorkspaceTag(v) == <<"pkg", "@">> \o v

\* What `git tag -f` would do: move the tag.
GitTagForce(tags, tag_name, commit) ==
    [error |-> "", tags |-> Merge([t \in {tag_name} |-> commit], tags)]

\* `git tag {tag_name} -a -m ...`: git refuses a name that is taken, and
\* run() raises.
GitTag(tags, tag_name, commit) ==
    IF tag_name \in DOMAIN tags
    THEN [error |-> "tag already exists", tags |-> tags]
    ELSE [error |-> "", tags |-> Merge(tags, [t \in {tag_name} |-> commit])]

\* npm.tag_workspace_packages: a package.json with workspaces gets a tag
\* per workspace package, an existing one being skipped.
TagWorkspacePackages(tags, v, commit) ==
    IF setupPy \/ WorkspaceTag(v) \in DOMAIN tags THEN tags
    ELSE Merge(tags, [t \in {WorkspaceTag(v)} |-> commit])

\* The commit a working tree makes next: no two working trees make the same
\* commit.
CommitId == commits + 1 + (active - 1) * (MaxCommits + 1)

\* tag_release: make the release commit with the digests of the files of
\* the output directory, tag it v{version}, tag the workspace packages.
\* commit_ok: git has something to commit.
TagRelease(commit_ok, no_git_tag_workspace) ==
    /\ commits < MaxCommits
    /\ \E message \in {CreateReleaseCommit(pkgVersion, dist)} :
         IF message = NoText \/ ~commit_ok
         THEN /\ gitLast' = [op |-> "tag",
                             error |-> IF message = NoText
                                       THEN "Missing distribution files"
                                       ELSE "git commit failed",
                             printed |-> {}, tag |-> TagName(pkgVersion),
                             tagsBefore |-> gitTags, bumpsBefore |-> bumps,
                             outputBefore |-> outputFile, dist |-> dist,
                             commitsBefore |-> commits, commit |-> NoCommit]
              /\ UNCHANGED <<gitTags, commits>>
         ELSE \E r \in {GitTag(gitTags, TagName(pkgVersion),
                               Commit(CommitId, message, dist))} :
              /\ commits' = commits + 1
              /\ gitTags' = IF r.error = "" /\ ~no_git_tag_workspace
                            THEN TagWorkspacePackages(r.tags, pkgVersion,
                                     Commit(CommitId, message, dist))
                            ELSE r.tags
              /\ gitLast' = [op |-> "tag", error |-> r.error, printed |-> {},
                             tag |-> TagName(pkgVersion),
                             tagsBefore |-> gitTags, bumpsBefore |-> bumps,
                             outputBefore |-> outputFile, dist |-> dist,
                             commitsBefore |-> commits,
                             commit |-> Commit(CommitId, message, dist)]
    /\ UNCHANGED <<pkgVersion, setupPy, active, parked, shaLast, cmdLast, dist, bumps, outputFile>>

\* A phase that pushes whatever the dry-run flag.
PushesAlways(dry_run) == TRUE

\* `if not dry_run:` before the push of draft_release, and the early
\* return of make_changelog_pr under dry-run.
Pushes(dry_run) == ~dry_run

\* The host takes any push.
PushAccepted == FALSE

\* `git push HEAD:{branch} --follow-tags --tags`: the host takes the commits
\* and the tags it does not have; a tag it has on another commit is
\* rejected and run() raises.
PushRejected == \E t \in DOMAIN gitTags \cap DOMAIN hostTags : gitTags[t] # hostTags[t]

\* `release.draft == "false"`: the draft field of a release is a boolean,
\* which no string equals.
DraftIsFalseString(release) == FALSE

\* The whole days since the release was made.
AgeDays(release) == (0 - release.created_at) \div 24

\* `delta.days` of `d_created - datetime.utcnow()`, created_at being in
\* hours from now (negative: in the past): the whole days, rounded down.
DeltaDays(release) == release.created_at \div 24

\* The loop over the releases of the host: those it leaves.
PruneReleases(releases) ==
    {release \in releases :
        DraftIsFalseString(release) \/ ~(DeltaDays(release) > 0)}

\* draft_release: take the assets (the files of the output directory unless
\* some are named), read the version, delete old releases, see whether the
\* version is a prerelease, bump to the post version if one is given and
\* commit, push unless dry-run, create the draft release with the assets.
\* One release is modelled: the one the release url names.
\* create_ok: the host carries out the request to create the release.
DraftRelease(dry_run, post_version_spec, assets, create_ok) ==
    /\ \A c \in created : c.by # active
    /\ assets \subseteq DOMAIN dist
    /\ (post_version_spec # << >> /\ post_version_spec # pkgVersion)
         => (commits < MaxCommits /\ bumps < MaxBumps)
    /\ LET post == post_version_spec # << >>
           crashed == IsPrerelease(pkgVersion) = "error"
           invalid == post /\ setupPy /\ ~IsCanonical(pkgVersion)
           \* a bump to the version the package has changes nothing (and is
           \* not counted), and `git commit -a` fails with nothing to commit
           unchanged == post /\ ~crashed /\ ~invalid /\ post_version_spec = pkgVersion
           stopped == crashed \/ invalid \/ unchanged
           rejected == Pushes(dry_run) /\ PushRejected
       IN  /\ otherReleases' = PruneReleases(otherReleases)
           /\ pkgVersion' = IF post /\ ~crashed THEN post_version_spec ELSE pkgVersion
           /\ bumps' = IF post /\ ~crashed /\ post_version_spec # pkgVersion
                       THEN bumps + 1 ELSE bumps
           /\ commits' = IF post /\ ~stopped THEN commits + 1 ELSE commits
           /\ hostTags' = IF stopped \/ ~Pushes(dry_run) THEN hostTags
                          ELSE Merge(hostTags, gitTags)
           /\ pushedCommits' = IF stopped \/ ~Pushes(dry_run)
                               THEN pushedCommits ELSE commits'
           /\ remoteLast' =
                [RemoteRun("draft-release", dry_run,
                           IF crashed THEN "AttributeError"
                           ELSE IF invalid THEN "Invalid post version"
                           ELSE IF unchanged THEN "git commit failed"
                           ELSE IF rejected THEN "git push failed"
                           ELSE IF ~create_ok THEN "create_release failed"
                           ELSE "")
                 EXCEPT !.post = post_version_spec, !.assets = assets,
                        !.create_ok = create_ok,
                        \* the run before this one
                        !.before = [op |-> remoteLast.op,
                                    dry_run |-> remoteLast.dry_run,
                                    error |-> remoteLast.error,
                                    version |-> remoteLast.version,
                                    post |-> remoteLast.post,
                                    assets |-> remoteLast.assets]]
           /\ IF stopped \/ rejected \/ ~create_ok
              THEN UNCHANGED <<hostRelease, created>>
              ELSE /\ created' = created \cup {[by |-> active, tag |-> TagName(pkgVersion)]}
                   /\ hostRelease' =
                        [exists |-> TRUE, draft |-> TRUE,
                         tag_name |-> TagName(pkgVersion),
                         target_commitish |-> Branch,
                         prerelease |-> IsPrerelease(pkgVersion),
                         body |-> ExtractCurrent(changelog),
                         assets |-> [n \in (IF assets = {} THEN DOMAIN dist ELSE assets)
                                       |-> dist[n]]]
    /\ UNCHANGED <<setupPy, active, parked, shaLast, cmdLast, dist, gitTags, outputFile, gitLast,
                   tampers, exLast, delLast, defaultLog, prBranches, pulls>>

\* The bytes the host serves for an asset are not those uploaded: a file
\* cut short or replaced, or an asset added to the release.
Tamper(name, content) ==
    /\ hostRelease.exists
    /\ tampers < MaxTampers
    /\ name \in DOMAIN hostRelease.assets => hostRelease.assets[name] # content
    /\ hostRelease' = [hostRelease EXCEPT !.assets =
                         [n \in DOMAIN hostRelease.assets \cup {name} |->
                            IF n = name THEN content ELSE hostRelease.assets[n]]]
    /\ tampers' = tampers + 1
    /\ UNCHANGED <<gitVars, hostTags, exLast, delLast, otherReleases, created>>

\* The assets downloaded before the check of the asset `bad` fails: those
\* up to it, in order.
RECURSIVE UpTo(_, _)
UpTo(assets, bad) ==
    IF Len(assets) = 0 THEN << >>
    ELSE IF assets[1] = bad THEN <<bad>>
    ELSE <<assets[1]>> \o UpTo(Tail(assets), bad)

\* Path(path).suffix: the last dot and what follows it.
Suffix(name) == IF Len(name) < 2 THEN "" ELSE name[Len(name)]

\* The check of a downloaded asset: python.check_dist for .gz and .whl,
\* npm.check_dist for .tgz, none for another suffix.
CheckKind(name) ==
    IF Suffix(name) \in {".gz", ".whl"} THEN "python"
    ELSE IF Suffix(name) = ".tgz" THEN "npm"
    ELSE "none"

\* The first loop of extract_release over the assets fetched: each is
\* downloaded and handed to its check.
RECURSIVE FetchSteps(_)
FetchSteps(fetched) ==
    IF Len(fetched) = 0 THEN << >>
    ELSE <<(<<"download", fetched[1]>>)>>
         \o (IF CheckKind(fetched[1]) = "none" THEN << >>
             ELSE <<(<<"check", fetched[1]>>)>>)
         \o FetchSteps(Tail(fetched))

\* The second loop: the digest of each asset is looked up in the commit
\* message, up to the asset found invalid (<< >>: none).
RECURSIVE VerifySteps(_, _)
VerifySteps(assets, invalid) ==
    IF Len(assets) = 0 THEN << >>
    ELSE <<(<<"verify", assets[1]>>)>>
         \o (IF assets[1] = invalid THEN << >>
             ELSE VerifySteps(Tail(assets), invalid))

\* extract_release: find the release, clean the output directory,
\* download each asset and check it; unless dry-run, find the tag of the
\* release on the host, read the message of the tagged commit and verify
\* each asset against it.  bad: the asset whose check_dist fails (<< >>:
\* none).
ExtractRelease(dry_run, bad) ==
    /\ hostRelease.exists
    /\ bad = << >> \/ bad \in DOMAIN hostRelease.assets
    /\ LET assets == SortedFiles(hostRelease.assets)
           fetched == IF bad \in DOMAIN hostRelease.assets
                      THEN UpTo(assets, bad) ELSE assets
           dir == [n \in {fetched[i] : i \in 1..Len(fetched)} |-> hostRelease.assets[n]]
           tag_name == hostRelease.tag_name
           message == IF tag_name \in DOMAIN hostTags
                      THEN hostTags[tag_name].message ELSE NoText
           invalid == IF message = NoText THEN << >>
                      ELSE FirstInvalid(assets, dir, message)
       IN  /\ dist' = dir
           /\ exLast' =
                IF bad \in DOMAIN hostRelease.assets
                THEN [op |-> "extract", dry_run |-> dry_run, error |-> "check_dist failed",
                      asset |-> bad, message |-> NoText, downloaded |-> dir,
                      steps |-> FetchSteps(fetched)]
                ELSE IF dry_run
                THEN [op |-> "extract", dry_run |-> dry_run, error |-> "",
                      asset |-> << >>, message |-> NoText, downloaded |-> dir,
                      steps |-> FetchSteps(fetched)]
                ELSE IF message = NoText
                THEN [op |-> "extract", dry_run |-> dry_run, error |-> "Could not find tag",
                      asset |-> << >>, message |-> NoText, downloaded |-> dir,
                      steps |-> FetchSteps(fetched)]
                ELSE [op |-> "extract", dry_run |-> dry_run,
                      error |-> IF invalid = << >> THEN "" ELSE "Invalid file",
                      asset |-> invalid, message |-> message, downloaded |-> dir,
                      steps |-> FetchSteps(fetched) \o VerifySteps(assets, invalid)]
    /\ UNCHANGED <<pkgVersion, setupPy, active, parked, shaLast, cmdLast, gitTags, commits, bumps, outputFile, gitLast,
                   hostRelease, hostTags, tampers, delLast, otherReleases, created>>

(***************************************************************************)
(* publish_release.                                                        *)
(***************************************************************************)
\* Files a publisher has no use for: one with an unknown suffix, one
\* without a dot, and the source archive of the Python package.
FooTarGz == <<"foo-1.0.1", ".tar", ".gz">>
NotesTxt == <<"notes", ".txt">>
License == <<"LICENSE">>
PubSorted == <<FooWhl, FooTarGz, FooTgz, NotesTxt, License>>
PubNames == {PubSorted[i] : i \in 1..Len(PubSorted)}
PubDirs == {[n \in S |-> <<0>>] : S \in SUBSET PubNames}

\* glob(f"{dist_dir}/*.*"): the files with a dot in the name.
RECURSIVE GlobDotted(_, _)
GlobDotted(dir, i) ==
    IF i > Len(PubSorted) THEN << >>
    ELSE (IF PubSorted[i] \in DOMAIN dir /\ Len(PubSorted[i]) >= 2
          THEN <<PubSorted[i]>> ELSE << >>) \o GlobDotted(dir, i + 1)

\* Every file with a suffix of a package goes to twine.
TwineForAll(name) ==
    IF Suffix(name) \in {".gz", ".whl", ".tgz"} THEN "twine" ELSE "none"

\* The publisher of a file: twine for .gz and .whl, npm for .tgz, none
\* for another suffix.
Publisher(name) ==
    IF Suffix(name) \in {".gz", ".whl"} THEN "twine"
    ELSE IF Suffix(name) = ".tgz" THEN "npm"
    ELSE "none"

\* The loop of publish_release over the files: what is handed to the
\* publishers up to the file whose upload fails (<< >>: none fails).
RECURSIVE PublishLoop(_, _)
PublishLoop(files, failing) ==
    IF Len(files) = 0 THEN << >>
    ELSE (IF Publisher(files[1]) = "none" THEN << >>
          ELSE <<(<<Publisher(files[1]), files[1]>>)>>)
         \o (IF files[1] = failing /\ Publisher(files[1]) # "none" THEN << >>
             ELSE PublishLoop(Tail(files), failing))

\* A run that would swallow the failure of its command.
RunNeverFails(failing) == ""

\* util.run of a publisher command: it raises when the command fails.
RunError(failing) == IF failing # << >> THEN "upload failed" ELSE ""

\* A loop that would count every run as having published.
FoundAlways(files) == TRUE

\* `found` after the loop has run to its end.
Found(files) == \E i \in 1..Len(files) : Publisher(files[i]) # "none"

\* An update that would leave the release a draft whatever the run.
DraftFlagKept(dry_run) == TRUE

\* The draft flag publish_release sends with the update: dry_run.
DraftFlag(dry_run) == dry_run

\* Release urls are sequences of pieces; the pieces of one character are
\* those the `.` of a pattern can match.
OneChar == {".", "/", "X", "v", "0", "1"}
HasSlash(c) == c \in {"/", "https://"}

\* The elements of a pattern: a literal piece, `.`, a group `[^/]+`, a
\* group `.*`.
Lit(c) == [kind |-> "lit", text |-> c]
Dot == [kind |-> "dot", text |-> ""]
Segment(name) == [kind |-> "segment", text |-> name]
Rest(name) == [kind |-> "rest", text |-> name]

RELEASE_HTML_PATTERN ==
    <<Lit("https://"), Lit("github"), Dot, Lit("com"), Lit("/"),
      Segment("owner"), Lit("/"), Segment("repo"), Lit("/"),
      Lit("releases"), Lit("/"), Lit("tag"), Lit("/"), Rest("tag")>>

RELEASE_API_PATTERN ==
    <<Lit("https://"), Lit("api"), Dot, Lit("github"), Dot, Lit("com"), Lit("/"),
      Lit("repos"), Lit("/"), Segment("owner"), Lit("/"), Segment("repo"), Lit("/"),
      Lit("releases"), Lit("/"), Lit("tags"), Lit("/"), Rest("tag")>>

NoMatch == [ok |-> FALSE, owner |-> << >>, repo |-> << >>, tag |-> << >>]

\* The length of the longest run of pieces from pos on that `[^/]` (or,
\* for `.`, anything but a line break) matches.
RECURSIVE RunLength(_, _, _)
RunLength(s, pos, kind) ==
    IF pos > Len(s) THEN 0
    ELSE IF kind = "segment" /\ HasSlash(s[pos]) THEN 0
    ELSE IF kind = "rest" /\ s[pos] = NL THEN 0
    ELSE 1 + RunLength(s, pos + 1, kind)

\* re.match(pattern, s) from element i of the pattern and position pos of
\* s on, m holding the groups matched so far.  A group is followed by a
\* piece it cannot hold or by the end of the pattern, so the longest run
\* is the only candidate.
RECURSIVE MatchFrom(_, _, _, _, _)
MatchFrom(pattern, i, s, pos, m) ==
    IF i > Len(pattern) THEN [m EXCEPT !.ok = TRUE]
    ELSE IF pattern[i].kind = "lit"
    THEN IF pos <= Len(s) /\ s[pos] = pattern[i].text
         THEN MatchFrom(pattern, i + 1, s, pos + 1, m) ELSE NoMatch
    ELSE IF pattern[i].kind = "dot"
    THEN IF pos <= Len(s) /\ s[pos] \in OneChar
         THEN MatchFrom(pattern, i + 1, s, pos + 1, m) ELSE NoMatch
    ELSE LET n == RunLength(s, pos, pattern[i].kind)
             group == SubSeq(s, pos, pos + n - 1)
         IN  IF pattern[i].kind = "segment" /\ n = 0 THEN NoMatch
             ELSE MatchFrom(pattern, i + 1, s, pos + n,
                    IF pattern[i].text = "owner" THEN [m EXCEPT !.owner = group]
                    ELSE IF pattern[i].text = "repo" THEN [m EXCEPT !.repo = group]
                    ELSE [m EXCEPT !.tag = group])

ReMatchUrl(pattern, s) == MatchFrom(pattern, 1, s, 1, NoMatch)

\* parse_release_url: the match of the first pattern, or else of the
\* second; no match is the ValueError "Release url is not valid".
ParseReleaseUrl(release_url) ==
    LET match == ReMatchUrl(RELEASE_HTML_PATTERN, release_url)
    IN  IF match.ok THEN match ELSE ReMatchUrl(RELEASE_API_PATTERN, release_url)

\* The two urls by which a release is known.
HtmlUrl(owner, repo, tag) ==
    <<"https://", "github", ".", "com", "/">> \o owner \o <<"/">> \o repo
    \o <<"/", "releases", "/", "tag", "/">> \o tag
ApiUrl(owner, repo, tag) ==
    <<"https://", "api", ".", "github", ".", "com", "/", "repos", "/">> \o owner
    \o <<"/">> \o repo \o <<"/", "releases", "/", "tags", "/">> \o tag

\* The repository of the model on the host, another repository, and a tag
\* with a slash.
Owner == <<"acme">>
Repo == <<"widget">>
DottedRepo == <<"wid", ".", "get">>
SlashTag == <<"release", "/", "1">>

\* Strings that are no release url: a host with another character for the
\* dot, a misspelt host, the url of the repository.
GithubXcom ==
    <<"https://", "github", "X", "com", "/">> \o Owner \o <<"/">> \o Repo
    \o <<"/", "releases", "/", "tag", "/">> \o TagName(V101)
GihubUrl ==
    <<"https://", "api", ".", "gihub", ".", "com", "/", "repos", "/">> \o Owner
    \o <<"/">> \o Repo \o <<"/", "releases", "/", "tags", "/">> \o TagName(V101)
RepoUrl == <<"https://", "github", ".", "com", "/">> \o Owner \o <<"/">> \o Repo

ReleaseUrls ==
    {HtmlUrl(Owner, Repo, TagName(V101)), ApiUrl(Owner, Repo, TagName(V101)),
     HtmlUrl(Owner, DottedRepo, SlashTag), ApiUrl(Owner, DottedRepo, SlashTag),
     GithubXcom, GihubUrl, RepoUrl}

\* util.release_for_url: the release of the repository whose html_url or
\* url is the given one.
ReleaseForUrl(release, url) ==
    /\ release.exists
    /\ url \in {HtmlUrl(Owner, Repo, release.tag_name),
                ApiUrl(Owner, Repo, release.tag_name)}

NoPublish == [op |-> "none", dry_run |-> FALSE, error |-> "", files |-> << >>,
              handed |-> << >>, releaseBefore |-> NoRelease, updatesBefore |-> 0,
              url |-> << >>, match |-> NoMatch]

InitPub ==
    /\ uploads = {}
    /\ updates = 0
    /\ pubLast = NoPublish

\* publish_release: parse the url, hand each file to its publisher, refuse
\* when none was handed over, find the release and update it.
\* failing: the file whose upload fails (<< >>: none).
PublishRelease(dry_run, release_url, failing) ==
    /\ updates < MaxUpdates
    /\ failing = << >> \/ (failing \in DOMAIN dist /\ Publisher(failing) # "none")
    /\ \E match \in {ParseReleaseUrl(release_url)}, files \in {GlobDotted(dist, 1)} :
       \E handed \in {IF match.ok THEN PublishLoop(files, failing) ELSE << >>},
          error \in {IF ~match.ok THEN "Release url is not valid"
                     ELSE IF RunError(failing) # "" THEN RunError(failing)
                     ELSE IF ~Found(files) THEN "No assets published"
                     ELSE IF ~ReleaseForUrl(hostRelease, release_url)
                     THEN "No release found"
                     ELSE ""} :
           /\ uploads' = uploads \cup {handed[i] : i \in 1..Len(handed)}
           /\ updates' = IF error = "" THEN updates + 1 ELSE updates
           /\ hostRelease' = IF error = ""
                             THEN [hostRelease EXCEPT !.draft = DraftFlag(dry_run)]
                             ELSE hostRelease
           /\ pubLast' = [op |-> "publish", dry_run |-> dry_run, error |-> error,
                          files |-> files, handed |-> handed,
                          releaseBefore |-> hostRelease, updatesBefore |-> updates,
                          url |-> release_url, match |-> match]
    /\ UNCHANGED <<gitVars, hostTags, tampers, exLast, delLast, otherReleases, created>>

(***************************************************************************)
(* compute_sha256 of a file of the output directory.                       *)
(***************************************************************************)
\* compute_sha256(path) of a file of the output directory.
ComputeDigest(name) ==
    /\ name \in DOMAIN dist
    /\ \E h \in {ReadAndHash(0, dist[name], 1)} :
         shaLast' = [op |-> "digest", name |-> name, size |-> Len(dist[name]),
                     digest |-> HexDigest(h), chars |-> HexDigits(h, 64),
                     edited |-> {},
                     before |-> [name |-> shaLast.name, digest |-> shaLast.digest,
                                 edited |-> shaLast.edited]]
    /\ UNCHANGED <<pkgVersion, setupPy, active, parked, dist, gitTags, commits, bumps,
                   outputFile, gitLast, cmdLast>>

\* One byte of a file is changed, from 0 to 1.
ModifyFile(name, pos) ==
    /\ name \in DOMAIN dist
    /\ pos \in 1..Len(dist[name])
    /\ dist[name][pos] = 0
    /\ dist' = [dist EXCEPT ![name][pos] = 1]
    /\ shaLast' = IF shaLast.name = name
                  THEN [shaLast EXCEPT !.edited = @ \cup {pos}]
                  ELSE shaLast
    /\ UNCHANGED <<pkgVersion, setupPy, active, parked, gitTags, commits, bumps,
                   outputFile, gitLast, cmdLast>>

(***************************************************************************)
(* check_links.                                                            *)
(***************************************************************************)
\* The globs check_links may be told to ignore, and the lifetimes of its
\* cache.
IgnoreGlobs == {<< >>, <<"CHANGELOG.md">>, <<"docs/*">>, <<"CHANGELOG.md", "docs/*">>}
LinksExpire == {"604800", "0"}

\* for spec in ignore_glob: cmd += f"--ignore-glob {spec}"
RECURSIVE IgnoreOptions(_)
IgnoreOptions(ignore_glob) ==
    IF Len(ignore_glob) = 0 THEN << >>
    ELSE <<"--ignore-glob ", ignore_glob[1]>> \o IgnoreOptions(Tail(ignore_glob))

\* The pytest command of check_links.
LinksCmd(ignore_glob, links_expire) ==
    <<"pytest --check-links --check-links-cache ",
      "--check-links-cache-expire-after ", links_expire, " ",
      "--check-links-cache-name ", "~/.cache/pytest-link-check",
      "/check-release-links ", " -k .md ">> \o IgnoreOptions(ignore_glob)

\* check_links: run pytest over the markdown files; when that raises, run
\* it once more with --lf.  failed: the runs (first, second) that exit
\* non-zero.
CheckLinks(ignore_glob, links_expire, failed) ==
    /\ \E cmd \in {LinksCmd(ignore_glob, links_expire)} :
         cmdLast' =
           IF 1 \notin failed
           THEN [op |-> "check-links", commands |-> <<[cmd |-> cmd, ok |-> TRUE]>>,
                 error |-> ""]
           ELSE [op |-> "check-links",
                 commands |-> <<[cmd |-> cmd, ok |-> FALSE],
                                [cmd |-> cmd \o <<" --lf">>, ok |-> 2 \notin failed]>>,
                 error |-> IF 2 \in failed THEN "CalledProcessError" ELSE ""]
    /\ UNCHANGED <<pkgVersion, setupPy, active, parked, shaLast, dist, gitTags, commits, bumps,
                   outputFile, gitLast>>

(***************************************************************************)
(* delete_release.                                                         *)
(***************************************************************************)
\* The requests of a deletion in the order the release is deleted first.
ReleaseFirst(assets) ==
    <<[kind |-> "release", name |-> << >>]>>
    \o [i \in 1..Len(assets) |-> [kind |-> "asset", name |-> assets[i]]]

\* The requests delete_release sends for a release with the given assets:
\* one per asset, in the order the host lists them, then one for the release.
DeleteRequests(assets) ==
    [i \in 1..Len(assets) |-> [kind |-> "asset", name |-> assets[i]]]
    \o <<[kind |-> "release", name |-> << >>]>>

\* The requests sent when the request `failing` raises: those up to it.
RECURSIVE Issued(_, _)
Issued(requests, failing) ==
    IF Len(requests) = 0 THEN << >>
    ELSE IF requests[1] = failing THEN <<requests[1]>>
    ELSE <<requests[1]>> \o Issued(Tail(requests), failing)

\* delete_release: parse the url, find the release, delete each asset,
\* delete the release.  failing: the request the host refuses
\* (kind "none": no request is refused).
DeleteRelease(release_url, failing) ==
    /\ failing.kind = "asset" => failing.name \in DOMAIN hostRelease.assets
    /\ \E match \in {ParseReleaseUrl(release_url)} :
       \E found \in {match.ok /\ ReleaseForUrl(hostRelease, release_url)} :
       \E requests \in {IF found
                        THEN Issued(DeleteRequests(SortedFiles(hostRelease.assets)), failing)
                        ELSE << >>} :
       \E done \in {{requests[i] : i \in 1..Len(requests)} \ {failing}} :
           /\ hostRelease' =
                IF [kind |-> "release", name |-> << >>] \in done THEN NoRelease
                ELSE [hostRelease EXCEPT !.assets =
                        [n \in {m \in DOMAIN hostRelease.assets :
                                  [kind |-> "asset", name |-> m] \notin done} |->
                           hostRelease.assets[n]]]
           /\ delLast' = [op |-> "delete",
                          error |-> IF ~match.ok THEN "Release url is not valid"
                                    ELSE IF ~found THEN "No release found"
                                    ELSE IF failing.kind # "none" THEN "delete failed"
                                    ELSE "",
                          url |-> release_url, requests |-> requests,
                          releaseBefore |-> hostRelease]
    /\ UNCHANGED <<gitVars, hostTags, tampers, exLast, otherReleases, created>>

(***************************************************************************)
(* The changelog pull requests: draft_changelog, forwardport_changelog.    *)
(***************************************************************************)
\* make_changelog_pr: unless dry-run move to a new branch off the remote
\* base; commit; under dry-run stop here; push the branch and open the
\* pull request.  changed: whether there is anything to commit.
\* [error, commits, branches, pulls] after the call.
MakeChangelogPr(dry_run, base, title, changed) ==
    LET pr_branch == [name |-> Cardinality(prBranches) + 1, commit |-> commits + 1]
    IN  IF ~changed
        THEN [error |-> "git commit failed", commits |-> commits,
              branches |-> prBranches, pulls |-> pulls]
        ELSE IF ~Pushes(dry_run)
        THEN [error |-> "", commits |-> commits + 1,
              branches |-> prBranches, pulls |-> pulls]
        ELSE [error |-> "", commits |-> commits + 1,
              branches |-> prBranches \cup {pr_branch},
              pulls |-> pulls \cup {[title |-> title, head |-> pr_branch.name,
                                     base |-> base]}]

\* draft_changelog: refuse when the tag of the version exists; drop the
\* unstaged changes of the version bump (the bump is not committed before
\* the first commit); commit the staged changelog and open the pull
\* request for it.
DraftChangelog(dry_run) ==
    /\ commits < MaxCommits
    /\ IF TagName(pkgVersion) \in DOMAIN gitTags
       THEN /\ remoteLast' = RemoteRun("draft-changelog", dry_run, "Tag already exists")
            /\ UNCHANGED <<pkgVersion, commits, prBranches, pulls>>
       ELSE \E r \in {MakeChangelogPr(dry_run, Branch,
                          <<"Automated Changelog for ">> \o pkgVersion,
                          clStaged # NoText)} :
            /\ pkgVersion' = IF commits = 0 THEN V100 ELSE pkgVersion
            /\ commits' = r.commits
            /\ prBranches' = r.branches
            /\ pulls' = r.pulls
            /\ remoteLast' = RemoteRun("draft-changelog", dry_run, r.error)
    /\ UNCHANGED <<setupPy, active, parked, shaLast, cmdLast, dist, gitTags, bumps, outputFile, gitLast, hostVars,
                   defaultLog, pushedCommits>>

\* The first line from line i on that starts with "#" once stripped,
\* << >> when there is none.
RECURSIVE FirstHeader(_, _)
FirstHeader(lines, i) ==
    IF i > Len(lines) THEN << >>
    ELSE IF Len(Strip(lines[i])) > 0 /\ Strip(lines[i])[1] \in {"#", "# "}
    THEN lines[i]
    ELSE FirstHeader(lines, i + 1)

\* The first header of the whole changelog at the tag.
HeaderAnywhere(full_log) == FirstHeader(SplitLines(full_log), 1)

\* Every forward port moves the markers to the entry.
MoveMarkers(default_log, entry, prev_header) ==
    InsertEntry(default_log, <<START_MARKER>> \o entry \o <<END_MARKER>>)

\* prev_header: the first header of full_log[index(END_MARKER):].
PrevHeader(full_log) ==
    FirstHeader(SplitLines(SubSeq(full_log, Find(full_log, <<END_MARKER>>),
                                  Len(full_log))), 1)

\* The default branch's changelog with the entry forward ported: the
\* markers move to the entry when the previous header is the current entry
\* of the default branch, else the entry goes in ahead of that header.
ForwardPort(default_log, entry, prev_header) ==
    IF Contains(ExtractCurrent(default_log), prev_header)
    THEN InsertEntry(default_log, <<START_MARKER>> \o entry \o <<END_MARKER>>)
    ELSE SubSeq(default_log, 1, Find(default_log, prev_header) - 1)
         \o LStrip(entry)
         \o SubSeq(default_log, Find(default_log, prev_header), Len(default_log))

\* The tag is never taken for merged.
NeverMerged(tag, tags) == FALSE

\* `tag in tags.splitlines()`, tags the output of `git tag --merged`.
IsMerged(tag, tags) == tag \in tags

\* forwardport_changelog: fetch the tags, find the release, stop when its
\* tag is merged into the default branch, read the entry and the previous
\* header at the tag, write the entry into the changelog of the default
\* branch, open a pull request for it.  merged_tags: the tags reachable
\* from the default branch.
ForwardportChangelog(dry_run, release_url, merged_tags) ==
    /\ commits < MaxCommits
    /\ merged_tags \subseteq DOMAIN gitTags \cup DOMAIN hostTags
    /\ gitTags' = Merge(gitTags, hostTags)
    /\ LET match == ParseReleaseUrl(release_url)
           found == match.ok /\ ReleaseForUrl(hostRelease, release_url)
           tag == hostRelease.tag_name
           prev_header == PrevHeader(changelog)
           early == IF ~match.ok THEN "Release url is not valid"
                    ELSE IF ~found THEN "No release found"
                    ELSE IF IsMerged(tag, merged_tags) THEN "merged"
                    ELSE IF tag \notin DOMAIN gitTags' THEN "git checkout failed"
                    ELSE IF ~Contains(changelog, <<END_MARKER>>)
                    THEN "substring not found"
                    ELSE IF prev_header = << >> THEN "No anchor for previous entry"
                    ELSE IF ~Contains(defaultLog, prev_header)
                    THEN "Could not find previous header"
                    ELSE ""
           run == [RemoteRun("forwardport", dry_run, "") EXCEPT
                     !.tag = IF found THEN tag ELSE << >>,
                     !.merged_tags = merged_tags,
                     !.logBefore = defaultLog,
                     !.commitsBefore = commits,
                     \* the tags prep_git has fetched into the working tree
                     !.fetched = DOMAIN gitTags' \ DOMAIN gitTags]
       IN  IF early # ""
           THEN /\ remoteLast' = [run EXCEPT !.error = IF early = "merged" THEN "" ELSE early]
                /\ UNCHANGED <<defaultLog, commits, prBranches, pulls>>
           ELSE \E default_log \in {ForwardPort(defaultLog, ExtractCurrent(changelog),
                                                prev_header)} :
                \E r \in {MakeChangelogPr(dry_run, DefaultBranch,
                              <<"Automated Changelog Forward Ported from ">> \o tag,
                              default_log # defaultLog)} :
                /\ defaultLog' = default_log
                /\ commits' = r.commits
                /\ prBranches' = r.branches
                /\ pulls' = r.pulls
                /\ remoteLast' = [run EXCEPT !.error = r.error]
    /\ UNCHANGED <<pkgVersion, setupPy, active, parked, shaLast, cmdLast, dist, bumps, outputFile, gitLast, hostVars,
                   pushedCommits>>

(***************************************************************************)
(* The specifications.                                                     *)
(***************************************************************************)
vars == <<clVars, gitVars, hostVars, pubVars, prVars>>

\* The changelog file under prep_changelog runs and hand edits.
NextChangelog ==
    \/ \E version \in Versions, prs \in PrSeqs :
          BuildChangelog(version, prs) /\ UNCHANGED <<gitVars, hostVars, pubVars, prVars>>
    \/ \E n \in PrNumbers : HandEdit(n) /\ UNCHANGED <<gitVars, hostVars, pubVars, prVars>>

InitBuild == InitChangelog /\ InitGit /\ InitHost /\ InitPub /\ InitRemote

SpecChangelog == InitBuild /\ [][NextChangelog]_vars

\* prep_changelog run again: the activity feed may hold a pull request whose
\* title cites another.
RebuildPrSeqs == {<< >>, <<1>>, <<1, 2>>, <<1, 4>>}

NextRebuild ==
    \E version \in Versions, prs \in RebuildPrSeqs :
        BuildChangelog(version, prs) /\ UNCHANGED <<gitVars, hostVars, pubVars, prVars>>

SpecRebuild == InitBuild /\ [][NextRebuild]_vars

\* A changelog with an entry between the markers, as the later phases find it.
ReleasedChangelog ==
    <<"# ", "Changelog", NL, NL, START_MARKER, NL, NL>>
    \o Heading(Version1) \o <<NL, NL, END_MARKER, NL>>

IdleChangelog ==
    /\ changelog = ReleasedChangelog
    /\ clOrig = changelog
    /\ clStaged = NoText
    /\ clOutput = NoText
    /\ clRuns = 0
    /\ clLast = [op |-> "none", version |-> << >>, entry |-> << >>,
                 prev |-> << >>, path |-> "none", error |-> ""]

\* Prep, build and tag: the repository may hold tags of earlier releases.
InitTag ==
    /\ IdleChangelog
    /\ InitHost
    /\ InitPub
    /\ InitRemote
    /\ pkgVersion = V100
    /\ setupPy \in BOOLEAN
    /\ dist = EmptyDir
    /\ gitTags \in {[t \in S |-> OldCommit] : S \in SUBSET {TagName(V101), TagName(V101rc0)}}
    /\ commits = 0
    /\ bumps = 0
    /\ outputFile = NoText
    /\ gitLast = NoRun
    /\ active = 1
    /\ cmdLast = NoCommands
    /\ shaLast = NoDigest
    /\ parked = NoParked

NextTag ==
    \/ \E version_spec \in VersionSpecs, bump_ok \in BOOLEAN, output \in BOOLEAN :
          PrepEnv(version_spec, bump_ok, output) /\ UNCHANGED <<clVars, hostVars, pubVars, prVars>>
    \/ \E dir \in BuildOutputs : BuildDist(dir) /\ UNCHANGED <<clVars, hostVars, pubVars, prVars>>
    \/ \E commit_ok \in BOOLEAN, no_git_tag_workspace \in BOOLEAN :
          TagRelease(commit_ok, no_git_tag_workspace) /\ UNCHANGED <<clVars, hostVars, pubVars, prVars>>

SpecTag == InitTag /\ [][NextTag]_vars

\* Tag, draft, extract: the version is bumped and the build has run.
InitAsset ==
    /\ IdleChangelog
    /\ InitHost
    /\ InitPub
    /\ InitRemote
    /\ pkgVersion = V101
    /\ setupPy = FALSE
    /\ dist \in Dirs
    /\ gitTags = NoTags
    /\ commits = 0
    /\ bumps = 1
    /\ outputFile = NoText
    /\ gitLast = NoRun
    /\ active = 1
    /\ cmdLast = NoCommands
    /\ shaLast = NoDigest
    /\ parked = NoParked

NextAsset ==
    \/ \E commit_ok \in BOOLEAN :
          TagRelease(commit_ok, TRUE) /\ UNCHANGED <<clVars, hostVars, pubVars, prVars>>
    \/ \E dry_run \in BOOLEAN, post_version_spec \in {<< >>, V102dev0},
          assets \in SUBSET Names :
          DraftRelease(dry_run, post_version_spec, assets, TRUE)
          /\ UNCHANGED <<clVars, pubVars>>
    \/ \E name \in Names, content \in Contents :
          Tamper(name, content) /\ UNCHANGED <<clVars, pubVars, prVars>>
    \/ \E dry_run \in BOOLEAN, bad \in {<< >>} \cup Names :
          ExtractRelease(dry_run, bad) /\ UNCHANGED <<clVars, pubVars, prVars>>

SpecAsset == InitAsset /\ [][NextAsset]_vars

\* Publish: a draft release may be on the host, the output directory holds
\* any files.
DraftOnHost ==
    [exists |-> TRUE, draft |-> TRUE, tag_name |-> TagName(V101),
     target_commitish |-> Branch, prerelease |-> "false", body |-> << >>,
     assets |-> EmptyDir]

InitPublish ==
    /\ IdleChangelog
    /\ InitPub
    /\ InitRemote
    /\ pkgVersion = V101
    /\ setupPy \in BOOLEAN
    /\ dist \in PubDirs
    /\ gitTags = NoTags
    /\ commits = 0
    /\ bumps = 1
    /\ outputFile = NoText
    /\ gitLast = NoRun
    /\ active = 1
    /\ cmdLast = NoCommands
    /\ shaLast = NoDigest
    /\ parked = NoParked
    /\ hostRelease \in {NoRelease, DraftOnHost}
    /\ hostTags = NoTags
    /\ tampers = 0
    /\ exLast = NoExtract
    /\ delLast = NoDelete
    /\ otherReleases = {}
    /\ created = {}

NextPublish ==
    \E dry_run \in BOOLEAN, release_url \in ReleaseUrls, failing \in {<< >>} \cup PubNames :
        PublishRelease(dry_run, release_url, failing) /\ UNCHANGED <<clVars, prVars>>

SpecPublish == InitPublish /\ [][NextPublish]_vars

\* Delete: a draft release with any assets is on the host.
DeleteUrls ==
    {HtmlUrl(Owner, Repo, TagName(V101)), ApiUrl(Owner, Repo, TagName(V101)),
     HtmlUrl(Owner, Repo, TagName(V100)), RepoUrl}
Failures ==
    {[kind |-> "none", name |-> << >>], [kind |-> "release", name |-> << >>]}
    \cup {[kind |-> "asset", name |-> n] : n \in Names}

InitDelete ==
    /\ IdleChangelog
    /\ InitPub
    /\ InitRemote
    /\ pkgVersion = V101
    /\ setupPy = FALSE
    /\ dist = EmptyDir
    /\ gitTags = NoTags
    /\ commits = 0
    /\ bumps = 1
    /\ outputFile = NoText
    /\ gitLast = NoRun
    /\ active = 1
    /\ cmdLast = NoCommands
    /\ shaLast = NoDigest
    /\ parked = NoParked
    /\ \E assets \in Dirs : hostRelease = [DraftOnHost EXCEPT !.assets = assets]
    /\ hostTags = NoTags
    /\ tampers = 0
    /\ exLast = NoExtract
    /\ delLast = NoDelete
    /\ otherReleases = {}
    /\ created = {}

NextDelete ==
    \/ \E name \in Names, content \in Contents :
          Tamper(name, content) /\ UNCHANGED <<clVars, pubVars, prVars>>
    \/ \E release_url \in DeleteUrls, failing \in Failures :
          DeleteRelease(release_url, failing) /\ UNCHANGED <<clVars, pubVars, prVars>>

SpecDelete == InitDelete /\ [][NextDelete]_vars

\* Check: the changelog holds an entry prep_changelog wrote for some pull
\* requests, or lacks a marker; the activity feed may report other pull
\* requests by now.
CheckPrSeqs == PrSeqs \cup {<<3>>, <<1, 3>>}
CheckTemplate == <<"# ", "Changelog", NL, NL, START_MARKER, NL, NL, END_MARKER>> \o OldSection
CheckDocs ==
    {PrepChangelog(CheckTemplate, version, ActivityMd(prs)).doc :
        version \in Versions, prs \in CheckPrSeqs}
    \cup {<<"# ", "Changelog", NL>>,
          <<START_MARKER, NL, START_MARKER, NL, END_MARKER, NL>>}

InitCheck ==
    /\ InitGit
    /\ InitHost
    /\ InitPub
    /\ InitRemote
    /\ changelog \in CheckDocs
    /\ clOrig = changelog
    /\ clStaged = NoText
    /\ clOutput = NoText
    /\ clRuns = 0
    /\ clLast = [op |-> "none", version |-> << >>, entry |-> << >>,
                 prev |-> << >>, path |-> "none", error |-> ""]

NextCheck ==
    \E version \in Versions, prs \in CheckPrSeqs, output \in BOOLEAN :
        CheckChangelog(version, prs, output) /\ UNCHANGED <<gitVars, hostVars, pubVars, prVars>>

SpecCheck == InitCheck /\ [][NextCheck]_vars

\* The pull request phases: the version is bumped, the changelog built
\* and staged, the build has run; the default branch has a changelog of
\* its own.
\* Releases the host may hold: a draft made fifty hours ago, one made five
\* hours ago, and a published release.
OldDraft == [id |-> 1, draft |-> TRUE, created_at |-> -50]
NewDraft == [id |-> 2, draft |-> TRUE, created_at |-> -5]
OldRelease == [id |-> 3, draft |-> FALSE, created_at |-> -50]

NoOldTemplate == <<"# ", "Changelog", NL, NL, START_MARKER, NL, NL, END_MARKER, NL>>
TaggedLogs ==
    {PrepChangelog(CheckTemplate, Version1, ActivityMd(<<1>>)).doc,
     PrepChangelog(NoOldTemplate, Version1, ActivityMd(<<1>>)).doc}
DefaultLogs ==
    {CheckTemplate, NoOldTemplate,
     PrepChangelog(NoOldTemplate, <<"0.0.1">>, ActivityMd(<<2>>)).doc}

InitPr ==
    /\ hostRelease = NoRelease
    /\ hostTags = NoTags
    /\ tampers = 0
    /\ exLast = NoExtract
    /\ delLast = NoDelete
    /\ otherReleases \in {{}, {OldDraft, NewDraft, OldRelease}}
    /\ created = {}
    /\ InitPub
    /\ changelog \in TaggedLogs
    /\ clOrig = changelog
    /\ clStaged \in {changelog, NoText}
    /\ clOutput = NoText
    /\ clRuns = 0
    /\ clLast = [op |-> "none", version |-> << >>, entry |-> << >>,
                 prev |-> << >>, path |-> "none", error |-> ""]
    /\ pkgVersion \in {V101, V101rc0}
    /\ setupPy = FALSE
    /\ dist = [n \in {FooTgz} |-> <<0, 1>>]
    /\ gitTags = NoTags
    /\ commits = 0
    /\ bumps = 1
    /\ outputFile = NoText
    /\ gitLast = NoRun
    /\ active = 1
    /\ cmdLast = NoCommands
    /\ shaLast = NoDigest
    /\ parked = NoParked
    /\ defaultLog \in DefaultLogs
    /\ pushedCommits = 0
    /\ prBranches = {}
    /\ pulls = {}
    /\ remoteLast = NoRemote

NextPr ==
    \/ \E dry_run \in BOOLEAN :
          DraftChangelog(dry_run) /\ UNCHANGED <<clVars, pubVars>>
    \/ \E commit_ok \in BOOLEAN :
          TagRelease(commit_ok, TRUE) /\ UNCHANGED <<clVars, hostVars, pubVars, prVars>>
    \/ \E dry_run \in BOOLEAN, post_version_spec \in {<< >>, V102dev0} :
          DraftRelease(dry_run, post_version_spec, {}, TRUE)
          /\ UNCHANGED <<clVars, pubVars>>
    \/ \E dry_run \in BOOLEAN, merged_tags \in SUBSET {TagName(V101)},
          release_url \in {HtmlUrl(Owner, Repo, TagName(V101)), GihubUrl} :
          ForwardportChangelog(dry_run, release_url, merged_tags)
          /\ UNCHANGED <<clVars, pubVars>>

SpecPr == InitPr /\ [][NextPr]_vars

\* Forward port: the release of 1.0.1 is on the host, the working tree at
\* its tag holds the changelog of the release branch, the default branch
\* has a changelog of its own.
ReleaseCommit == Commit(1, <<"Publish ", "1.0.1">>, EmptyDir)
ForwardTaggedLogs == TaggedLogs \cup {<<"# ", "Changelog", NL, NL, START_MARKER, NL>>}
ForwardDefaultLogs ==
    DefaultLogs
    \cup {PrepChangelog(CheckTemplate, Version1, ActivityMd(<<1>>)).doc,
          PrepChangelog(CheckTemplate, <<"2.0.0">>, ActivityMd(<<2>>)).doc,
          OldSection \o <<NL>> \o CheckTemplate}

InitForward ==
    /\ hostRelease = DraftOnHost
    /\ hostTags \in {NoTags, [t \in {TagName(V101)} |-> ReleaseCommit]}
    /\ tampers = 0
    /\ exLast = NoExtract
    /\ delLast = NoDelete
    /\ otherReleases = {}
    /\ created = {}
    /\ InitPub
    /\ changelog \in ForwardTaggedLogs
    /\ clOrig = changelog
    /\ clStaged = NoText
    /\ clOutput = NoText
    /\ clRuns = 0
    /\ clLast = [op |-> "none", version |-> << >>, entry |-> << >>,
                 prev |-> << >>, path |-> "none", error |-> ""]
    /\ pkgVersion = V101
    /\ setupPy = FALSE
    /\ dist = EmptyDir
    /\ gitTags = NoTags
    /\ commits = 0
    /\ bumps = 1
    /\ outputFile = NoText
    /\ gitLast = NoRun
    /\ active = 1
    /\ cmdLast = NoCommands
    /\ shaLast = NoDigest
    /\ parked = NoParked
    /\ defaultLog \in ForwardDefaultLogs
    /\ pushedCommits = 0
    /\ prBranches = {}
    /\ pulls = {}
    /\ remoteLast = NoRemote

NextForward ==
    \E dry_run \in BOOLEAN, merged_tags \in SUBSET {TagName(V101), TagName(V100)},
       release_url \in {HtmlUrl(Owner, Repo, TagName(V101)),
                        ApiUrl(Owner, Repo, TagName(V100)), GihubUrl} :
       ForwardportChangelog(dry_run, release_url, merged_tags)
       /\ UNCHANGED <<clVars, pubVars>>

SpecForward == InitForward /\ [][NextForward]_vars

\* Draft release and its re-runs: the version is bumped, the build has
\* run; the host may fail to create the release.
InitRerun ==
    /\ IdleChangelog
    /\ InitPub
    /\ InitRemote
    /\ hostRelease = NoRelease
    /\ hostTags = NoTags
    /\ tampers = 0
    /\ exLast = NoExtract
    /\ delLast = NoDelete
    /\ otherReleases \in {{}, {OldDraft, NewDraft, OldRelease}}
    /\ created = {}
    /\ pkgVersion \in {V101, V101rc0}
    /\ setupPy \in BOOLEAN
    /\ dist \in {[n \in {FooTgz} |-> <<0, 1>>],
                 [n \in {FooTgz, ScopeFooTgz} |-> <<0>>]}
    /\ gitTags = NoTags
    /\ commits = 0
    /\ bumps = 1
    /\ outputFile = NoText
    /\ gitLast = NoRun
    /\ active = 1
    /\ cmdLast = NoCommands
    /\ shaLast = NoDigest
    /\ parked = NoParked

NextRerun ==
    \/ \E commit_ok \in BOOLEAN :
          TagRelease(commit_ok, TRUE) /\ UNCHANGED <<clVars, hostVars, pubVars, prVars>>
    \/ \E dry_run \in BOOLEAN, post_version_spec \in {<< >>, V102dev0},
          create_ok \in BOOLEAN :
          DraftRelease(dry_run, post_version_spec, {}, create_ok)
          /\ UNCHANGED <<clVars, pubVars>>

SpecRerun == InitRerun /\ [][NextRerun]_vars

\* Two pipelines release the same version from working trees of their own
\* against one host; each runs its phases in order and stops at the first
\* that fails.
\* The runner turns to the other pipeline.
Switch ==
    /\ parked # NoParked
    /\ active' = 3 - active
    /\ parked' = [pkgVersion |-> pkgVersion, setupPy |-> setupPy, dist |-> dist,
                  gitTags |-> gitTags, commits |-> commits, bumps |-> bumps,
                  outputFile |-> outputFile, gitLast |-> gitLast]
    /\ pkgVersion' = parked.pkgVersion
    /\ setupPy' = parked.setupPy
    /\ dist' = parked.dist
    /\ gitTags' = parked.gitTags
    /\ commits' = parked.commits
    /\ bumps' = parked.bumps
    /\ outputFile' = parked.outputFile
    /\ gitLast' = parked.gitLast
    /\ UNCHANGED <<cmdLast, shaLast>>

InitRace ==
    /\ IdleChangelog
    /\ InitHost
    /\ InitPub
    /\ InitRemote
    /\ pkgVersion = V100
    /\ setupPy \in BOOLEAN
    /\ dist = EmptyDir
    /\ gitTags = NoTags
    /\ commits = 0
    /\ bumps = 0
    /\ outputFile = NoText
    /\ gitLast = NoRun
    /\ active = 1
    /\ cmdLast = NoCommands
    /\ shaLast = NoDigest
    /\ parked = [NoParked EXCEPT !.pkgVersion = V100, !.setupPy = setupPy]

NextRace ==
    \/ \E bump_ok \in BOOLEAN, output \in BOOLEAN :
          /\ gitLast.op = "none"
          /\ PrepEnv(V101, bump_ok, output)
          /\ UNCHANGED <<clVars, hostVars, pubVars, prVars>>
    \/ \E dir \in BuildOutputs :
          /\ gitLast.op = "prep" /\ gitLast.error = ""
          /\ BuildDist(dir)
          /\ UNCHANGED <<clVars, hostVars, pubVars, prVars>>
    \/ \E commit_ok \in BOOLEAN, no_git_tag_workspace \in BOOLEAN :
          /\ gitLast.op = "prep" /\ gitLast.error = ""
          /\ TagRelease(commit_ok, no_git_tag_workspace)
          /\ UNCHANGED <<clVars, hostVars, pubVars, prVars>>
    \/ \E create_ok \in BOOLEAN :
          /\ gitLast.op = "tag" /\ gitLast.error = ""
          /\ DraftRelease(FALSE, << >>, {}, create_ok)
          /\ UNCHANGED <<clVars, pubVars>>
    \/ Switch /\ UNCHANGED <<clVars, hostVars, pubVars, prVars>>

SpecRace == InitRace /\ [][NextRace]_vars

\* The checks of a package before its release: the links of its
\* documentation, with the phases that prepare and build it.
NextLinks ==
    \/ \E ignore_glob \in IgnoreGlobs, links_expire \in LinksExpire,
          failed \in SUBSET {1, 2} :
          CheckLinks(ignore_glob, links_expire, failed)
          /\ UNCHANGED <<clVars, hostVars, pubVars, prVars>>
    \/ \E version_spec \in {V101, V101rc0}, bump_ok \in BOOLEAN :
          PrepEnv(version_spec, bump_ok, FALSE)
          /\ UNCHANGED <<clVars, hostVars, pubVars, prVars>>
    \/ \E dir \in BuildOutputs :
          BuildDist(dir) /\ UNCHANGED <<clVars, hostVars, pubVars, prVars>>

SpecLinks == InitTag /\ [][NextLinks]_vars

\* Digests: the output directory holds a file shorter than a chunk, of one
\* chunk, or of one chunk and a byte.
RECURSIVE Zeros(_)
Zeros(n) ==
    IF n = 0 THEN << >>
    ELSE IF n = 1 THEN <<0>>
    ELSE Zeros(n \div 2) \o Zeros(n - n \div 2)

LongContents == {<<0, 0>>, Zeros(BUF_SIZE), Zeros(BUF_SIZE + 1)}
EditPlaces == {1, BUF_SIZE, BUF_SIZE + 1}

InitDigest ==
    /\ IdleChangelog
    /\ InitHost
    /\ InitPub
    /\ InitRemote
    /\ pkgVersion = V101
    /\ setupPy = FALSE
    /\ \E bytes \in LongContents : dist = [n \in {FooTgz} |-> bytes]
    /\ gitTags = NoTags
    /\ commits = 0
    /\ bumps = 1
    /\ outputFile = NoText
    /\ gitLast = NoRun
    /\ active = 1
    /\ cmdLast = NoCommands
    /\ shaLast = NoDigest
    /\ parked = NoParked

NextDigest ==
    \/ ComputeDigest(FooTgz) /\ UNCHANGED <<clVars, hostVars, pubVars, prVars>>
    \/ \E pos \in EditPlaces :
          ModifyFile(FooTgz, pos) /\ UNCHANGED <<clVars, hostVars, pubVars, prVars>>

SpecDigest == InitDigest /\ [][NextDigest]_vars

(***************************************************************************)
(* Claims about the changelog.                                             *)
(***************************************************************************)
\* The last operation was a prep_changelog run that wrote the file.
Built == clLast.op = "build" /\ clLast.error = ""

\* The lines from the START marker to the first END marker, markers included.
RegionLines(doc) == SplitLines(PrevEntry(doc))

\* The PR references of a text.
RefsOf(text) == {text[i] : i \in 1..Len(text)} \cap PrRefs

\* C8: starting from a document with exactly one START and one END marker,
\* START first, the document holds exactly one START and one END marker,
\* START first, after any number of prep_changelog runs.
C8_MarkerCount == WellFormed(clOrig) => WellFormed(changelog)

\* The run re-ran a version whose heading is a line of the old marker region.
RerunOfListedVersion ==
    /\ Built
    /\ WellFormed(clLast.prev)
    /\ \E i \in 1..Len(RegionLines(clLast.prev)) :
          RegionLines(clLast.prev)[i] = Heading(clLast.version)

Verified == exLast.op = "extract" /\ ~exLast.dry_run /\ exLast.message # NoText

\* The line is the checksum line of the asset: "dist/{name}: {digest}".
NamesAsset(line, name) ==
    /\ Len(line) = Len(name) + 3
    /\ SubSeq(line, 1, Len(name) + 2) = <<"dist/">> \o name \o <<": ">>

\* The digest of the downloaded copy of an asset.
DownloadedSha(name) == ComputeSha256(exLast.downloaded[name])

\* C1: in extract_release without dry-run an asset is accepted only if one
\* line of the tagged commit's message contains its name and the digest of
\* the downloaded bytes; the run fails if a line names the asset with
\* another digest, and fails if no line names the asset.
C1_LineDigest ==
    Verified =>
      \A name \in DOMAIN exLast.downloaded :
        LET lines == SplitLines(exLast.message)
            L == 1..Len(lines)
        IN  /\ exLast.error = "" =>
                 \E i \in L : /\ Contains(lines[i], name)
                              /\ Contains(lines[i], <<DownloadedSha(name)>>)
            /\ (\E i \in L : /\ NamesAsset(lines[i], name)
                             /\ ~Contains(lines[i], <<DownloadedSha(name)>>))
                 => exLast.error # ""
            /\ (\A i \in L : ~Contains(lines[i], name)) => exLast.error # ""

\* The commit the tag of the release points to on the host.
TaggedCommit == hostTags[hostRelease.tag_name]

\* C2: when the downloaded files are byte for byte the files of the output
\* directory at tag time, extract_release succeeds; when a downloaded
\* copy differs from the tagged file of its name, extract_release fails.
C2_RoundTrip ==
    Verified =>
      /\ exLast.downloaded = TaggedCommit.files => exLast.error = ""
      /\ (\E name \in DOMAIN exLast.downloaded \cap DOMAIN TaggedCommit.files :
             exLast.downloaded[name] # TaggedCommit.files[name])
           => exLast.error # ""

(***************************************************************************)
(* Claims about publish_release.                                           *)
(***************************************************************************)
Published == pubLast.op = "publish"

\* The files of the run include one of a recognized package type.
Recognized(files) ==
    \E i \in 1..Len(files) : Suffix(files[i]) \in {".gz", ".whl", ".tgz"}

\* C3: a publish_release run over an output directory without a file of a
\* recognized type (.gz, .whl, .tgz) fails, sends no update to the host and
\* leaves the release as it was.
C3_NoAssetsNoUpdate ==
    (Published /\ ~Recognized(pubLast.files)) =>
      /\ pubLast.error # ""
      /\ updates = pubLast.updatesBefore
      /\ hostRelease = pubLast.releaseBefore

\* A run with a valid url on a draft release, the directory holding only
\* files no publisher takes.
C3_Witness ==
    /\ Published
    /\ pubLast.error = "No assets published"
    /\ pubLast.files # << >>
    /\ hostRelease.exists /\ hostRelease.draft

\* C4: a release that is not a draft is not a draft after a publish_release
\* run either, dry-run or not.
C4_NeverReopened ==
    (Published /\ pubLast.releaseBefore.exists /\ ~pubLast.releaseBefore.draft)
      => ~hostRelease.draft

PrepFoundTag == gitLast.op = "prep" /\ gitLast.tag \in DOMAIN gitLast.tagsBefore

\* What C6 says of the output: the run failed, printed neither version=
\* nor is_prerelease=, and left the output file alone.
PrepNoOutput ==
    /\ gitLast.error # ""
    /\ gitLast.printed \cap {"version", "is_prerelease"} = {}
    /\ outputFile = gitLast.outputBefore

\* C6 as stated: when the tag exists, prep_env fails without output and
\* the version-bump tool is not run.
C6_Original == PrepFoundTag => (PrepNoOutput /\ bumps = gitLast.bumpsBefore)

\* C6: when the tag exists, prep_env fails without output, the
\* version-bump tool having been run once before the check.
C6_FailsAfterBump == PrepFoundTag => (PrepNoOutput /\ bumps = gitLast.bumpsBefore + 1)

\* The second run of prep_env bumped to 1.0.1 and bailed at the tag check.
C6_Witness ==
    /\ PrepFoundTag
    /\ gitLast.error = "Tag already exists"
    /\ pkgVersion = V101
    /\ bumps = 2

\* The last operation was a tag_release run that found the tag of the
\* version in the repository.
TagCollision == gitLast.op = "tag" /\ gitLast.tag \in DOMAIN gitLast.tagsBefore

\* C7: a tag_release run that finds the tag v{version} fails and leaves
\* every tag on the commit it was on: a tag is made once and never moved.
C7_TagNeverMoved ==
    TagCollision => (gitLast.error # "" /\ gitTags = gitLast.tagsBefore)

\* The run made its release commit and was refused the tag, which stays
\* on an earlier commit.
C7_Witness ==
    /\ TagCollision
    /\ gitLast.error = "tag already exists"
    /\ gitTags[gitLast.tag].id = 1
    /\ commits = 2

(***************************************************************************)
(* More claims about the changelog.                                        *)
(***************************************************************************)
\* The marker region the run found holds the heading "## {version}" as a line.
HeadingInRegion ==
    \E i \in 1..Len(RegionLines(clLast.prev)) :
        RegionLines(clLast.prev)[i] = Heading(clLast.version)

\* C11: prep_changelog takes the merge path exactly when the marker region
\* holds a heading equal to "## {version}", and the replace path otherwise,
\* also when the region holds only the heading of a version whose text
\* starts with this version.
C11_MergeIffHeading ==
    Built => (clLast.path = "merge" <=> HeadingInRegion)

\* C12: a prep_changelog run on a document that does not hold exactly one
\* START and one END marker, START first, fails and leaves the file as it
\* was.
C12_MalformedRejected ==
    (clLast.op = "build" /\ ~WellFormed(clLast.prev)) =>
        (clLast.error # "" /\ changelog = clLast.prev)

\* s ends with t.
EndsWith(s, t) == Len(t) <= Len(s) /\ SubSeq(s, Len(s) - Len(t) + 1, Len(s)) = t

\* The text above the START marker, and the text below the first END marker.
Above(doc) == SubSeq(doc, 1, Find(doc, <<START_MARKER>>) - 1)
Below(doc) == SubSeq(doc, Find(doc, <<END_MARKER>>) + 1, Len(doc))

\* The run took the replace path on a well-formed document.
FirstInsertion == Built /\ clLast.path = "insert" /\ WellFormed(clLast.prev)

Checked == clLast.op = "check"
RawEntry == clLast.entry
FinalEntry == ExtractCurrent(clLast.prev)

\* A raw reference is let off when a raw line holding it mentions the
\* changelog.
LetOff(pr) ==
    \E i \in 1..Len(SplitLines(RawEntry)) :
        /\ Contains(SplitLines(RawEntry)[i], <<pr>>)
        /\ HasChangelog(SplitLines(RawEntry)[i])

\* C14: a check_changelog run succeeds only if every PR reference of the
\* raw entry is in the final entry, save those on a raw line with the word
\* "changelog", and every PR reference of the final entry is in the raw one.
C14_BothContainments ==
    (Checked /\ clLast.error = "") =>
      /\ \A pr \in RefsOf(RawEntry) : LetOff(pr) \/ pr \in RefsOf(FinalEntry)
      /\ \A pr \in RefsOf(FinalEntry) : pr \in RefsOf(RawEntry)

\* A run that succeeded with a raw reference let off and missing from the
\* final entry, another raw reference being in both.
C14_Witness ==
    /\ Checked /\ clLast.error = ""
    /\ PrRef(3) \in RefsOf(RawEntry) \ RefsOf(FinalEntry)
    /\ PrRef(1) \in RefsOf(RawEntry) \cap RefsOf(FinalEntry)
    /\ clOutput # NoText

(***************************************************************************)
(* More claims about the release commit.                                   *)
(***************************************************************************)
\* The last run was tag_release; the lines of the commit it made.
TagRan == gitLast.op = "tag"
CommitLines == SplitLines(gitLast.commit.message)

\* A line "{path}: {digest}" and its path.
IsShaLine(line) == Len(line) > 2 /\ line[Len(line) - 1] = ": "
PathOf(line) == SubSeq(line, 1, Len(line) - 2)

\* The code point of the first character of a piece of a path, and the
\* order of paths as strings.
CodePoint(c) ==
    CASE c = "-py3-none-any" -> 45
      [] c \in {".tgz", ".whl"} -> 46
      [] c = "dist/" -> 100
      [] c = "foo-1.0.1" -> 102
      [] c = "scope-" -> 115

RECURSIVE PathLess(_, _)
PathLess(a, b) ==
    IF Len(a) = 0 THEN Len(b) > 0
    ELSE IF Len(b) = 0 THEN FALSE
    ELSE IF a[1] = b[1] THEN PathLess(Tail(a), Tail(b))
    ELSE CodePoint(a[1]) < CodePoint(b[1])

\* C15: the message of the release commit has exactly one line
\* "{path}: {digest}" for each file of the output directory and no other
\* such line, the paths ascending; with an empty output directory
\* tag_release fails and no commit is made.
C15_OneLinePerFile ==
    TagRan =>
      /\ gitLast.dist = EmptyDir =>
           (gitLast.error # "" /\ gitLast.commit = NoCommit
            /\ commits = gitLast.commitsBefore)
      /\ gitLast.commit # NoCommit =>
           \A lines \in {CommitLines} :
               /\ \A name \in DOMAIN gitLast.dist :
                    Cardinality({i \in 1..Len(lines) : lines[i] =
                        <<"dist/">> \o name
                        \o <<": ", ComputeSha256(gitLast.dist[name])>>}) = 1
               /\ \A i \in 1..Len(lines) : IsShaLine(lines[i]) =>
                    \E name \in DOMAIN gitLast.dist :
                        PathOf(lines[i]) = <<"dist/">> \o name
               /\ \A i, j \in 1..Len(lines) :
                    (i < j /\ IsShaLine(lines[i]) /\ IsShaLine(lines[j]))
                      => PathLess(PathOf(lines[i]), PathOf(lines[j]))

\* A commit over two files was made.
C15_Witness ==
    /\ TagRan
    /\ DOMAIN gitLast.dist = {FooTgz, ScopeFooTgz}
    /\ gitLast.commit # NoCommit
    /\ commits = gitLast.commitsBefore + 1
    /\ Cardinality({i \in 1..Len(CommitLines) : IsShaLine(CommitLines[i])}) = 2

\* tag_release ran on an empty output directory.
TagRanOnEmptyDir == TagRan /\ gitLast.dist = EmptyDir /\ gitLast.error # ""

(***************************************************************************)
(* More claims about extract_release.                                      *)
(***************************************************************************)
\* The last run was extract_release; the tag of the release is on the host.
ExtractRan == exLast.op = "extract"
TagOnHost == hostRelease.tag_name \in DOMAIN hostTags

\* Some line of the message read holds the name of the asset and the digest
\* of its downloaded copy.
PassedVerification(name) ==
    \E i \in 1..Len(SplitLines(exLast.message)) :
        /\ Contains(SplitLines(exLast.message)[i], name)
        /\ Contains(SplitLines(exLast.message)[i], <<DownloadedSha(name)>>)

\* C16: without dry-run extract_release succeeds only if the tag of the
\* release was found on the host and every downloaded asset was verified
\* against the message of the tagged commit, and it fails when the tag is
\* not found; with dry-run no tag is looked up and no asset is verified.
C16_VerifiedOrFailed ==
    ExtractRan =>
      /\ (~exLast.dry_run /\ exLast.error = "") =>
           /\ TagOnHost
           /\ exLast.message = TaggedCommit.message
           /\ \A name \in DOMAIN exLast.downloaded : PassedVerification(name)
      /\ (~exLast.dry_run /\ ~TagOnHost) => exLast.error # ""
      /\ exLast.dry_run =>
           (exLast.message = NoText /\ exLast.error \in {"", "check_dist failed"})

\* A run without dry-run that verified two assets against the tagged commit.
C16_Witness ==
    /\ ExtractRan /\ ~exLast.dry_run /\ exLast.error = ""
    /\ TagOnHost
    /\ Cardinality(DOMAIN exLast.downloaded) = 2

\* A dry run that succeeded with the tag missing from the host.
DryRunWithoutTag ==
    ExtractRan /\ exLast.dry_run /\ exLast.error = "" /\ ~TagOnHost
    /\ exLast.downloaded # EmptyDir

\* A run without dry-run that failed because the tag is not on the host.
FailedWithoutTag ==
    ExtractRan /\ ~exLast.dry_run /\ ~TagOnHost /\ exLast.error = "Could not find tag"

(***************************************************************************)
(* Claims about release urls.                                              *)
(***************************************************************************)
\* s is prefix \o owner \o "/" \o repo \o middle \o tag for some owner and
\* repo made of pieces other than slashes.
InForm(s, prefix, middle) ==
    \E i, j \in 1..Len(s) :
       /\ i > Len(prefix) /\ j > i + 1
       /\ SubSeq(s, 1, Len(prefix)) = prefix
       /\ \A k \in (Len(prefix) + 1)..(i - 1) : ~HasSlash(s[k])
       /\ s[i] = "/"
       /\ \A k \in (i + 1)..(j - 1) : ~HasSlash(s[k])
       /\ SubSeq(s, j, j + Len(middle) - 1) = middle

IsHtmlForm(s) ==
    InForm(s, <<"https://", "github", ".", "com", "/">>,
              <<"/", "releases", "/", "tag", "/">>)
IsApiForm(s) ==
    InForm(s, <<"https://", "api", ".", "github", ".", "com", "/", "repos", "/">>,
              <<"/", "releases", "/", "tags", "/">>)

\* C17: the browsing form and the API form of the url of a release parse
\* to the same owner, repo and tag, and a string in neither form is
\* rejected.
C17_SameTripleOrRejected ==
    Published =>
      /\ \A r \in {Repo, DottedRepo}, t \in {TagName(V101), SlashTag} :
           pubLast.url \in {HtmlUrl(Owner, r, t), ApiUrl(Owner, r, t)} =>
             pubLast.match = [ok |-> TRUE, owner |-> Owner, repo |-> r, tag |-> t]
      /\ (~IsHtmlForm(pubLast.url) /\ ~IsApiForm(pubLast.url)) =>
           pubLast.error = "Release url is not valid"

\* The two forms of the url of a release parse alike.
BothFormsParseAlike ==
    Published =>
      \A r \in {Repo, DottedRepo}, t \in {TagName(V101), SlashTag} :
         pubLast.url \in {HtmlUrl(Owner, r, t), ApiUrl(Owner, r, t)} =>
           pubLast.match = [ok |-> TRUE, owner |-> Owner, repo |-> r, tag |-> t]

(***************************************************************************)
(* Claims about dry runs.                                                  *)
(***************************************************************************)
\* The last phase that may push ran under dry-run.
DryRan == remoteLast.op # "none" /\ remoteLast.dry_run

\* C18: after a dry run of draft_changelog, forwardport_changelog or
\* draft_release the host has the tags, the commits, the branches and the
\* pull requests it had before the run.
C18_DryRunLeavesRemote ==
    DryRan =>
      /\ hostTags = remoteLast.tagsBefore
      /\ pushedCommits = remoteLast.pushedBefore
      /\ prBranches = remoteLast.branchesBefore
      /\ pulls = remoteLast.pullsBefore

\* A dry run of draft_release that made the commit of the post version with
\* a tag to push.
C18_Witness ==
    /\ DryRan /\ remoteLast.op = "draft-release" /\ remoteLast.error = ""
    /\ pkgVersion = V102dev0
    /\ commits > pushedCommits
    /\ DOMAIN gitTags # DOMAIN hostTags

\* Dry runs of the two pull request phases that made their commit.
DryChangelogPr ==
    DryRan /\ remoteLast.op = "draft-changelog" /\ remoteLast.error = "" /\ commits = 1
DryForwardport ==
    DryRan /\ remoteLast.op = "forwardport" /\ remoteLast.error = ""
    /\ defaultLog \notin DefaultLogs

\* Runs without dry-run that pushed and opened a pull request.
PushedForwardport ==
    /\ remoteLast.op = "forwardport" /\ ~remoteLast.dry_run
    /\ pulls # remoteLast.pullsBefore /\ prBranches # remoteLast.branchesBefore
PushedRelease ==
    /\ remoteLast.op = "draft-release" /\ ~remoteLast.dry_run
    /\ hostTags # remoteLast.tagsBefore /\ pushedCommits > remoteLast.pushedBefore

(***************************************************************************)
(* Claims about draft_release.                                             *)
(***************************************************************************)
\* The last phase that may push was draft_release, and it made the release.
Drafted == remoteLast.op = "draft-release" /\ remoteLast.error = ""

\* A draft made more than a day ago.
Stale(release) == release.draft /\ release.created_at < -24

\* C19: when draft_release has made the new draft release, the host holds
\* no draft release made more than one day before.
C19_StaleDraftsDeleted ==
    Drafted => \A release \in otherReleases : ~Stale(release)

\* The text of the changelog after the first START marker and before the
\* first END marker.
BetweenMarkers ==
    SubSeq(changelog, Find(changelog, <<START_MARKER>>) + 1,
           Find(changelog, <<END_MARKER>>) - 1)

\* C20: the release draft_release makes is a draft with the tag
\* v{version}, the branch as target, the text between the markers of the
\* changelog as body and is_prerelease(version) as prerelease flag, version
\* being the version before the bump to the post version.
C20_DraftOfVersion ==
    Drafted =>
      /\ hostRelease.exists /\ hostRelease.draft
      /\ hostRelease.tag_name = <<"v">> \o remoteLast.version
      /\ hostRelease.target_commitish = Branch
      /\ hostRelease.body = BetweenMarkers
      /\ hostRelease.prerelease = IsPrerelease(remoteLast.version)

\* The draft of a release candidate, made by a run that bumped to the post
\* version.
C20_Witness ==
    /\ Drafted
    /\ remoteLast.version = V101rc0 /\ pkgVersion = V102dev0
    /\ hostRelease.prerelease = "true"
    /\ PrRef(1) \in RefsOf(hostRelease.body)

\* The last run of draft_release repeats, with the same inputs and without
\* dry-run, a run that pushed and then failed to create the release; this
\* time the host carries out the request.
Rerun ==
    /\ remoteLast.op = "draft-release" /\ ~remoteLast.dry_run
    /\ remoteLast.before.op = "draft-release" /\ ~remoteLast.before.dry_run
    /\ remoteLast.before.error = "create_release failed"
    /\ remoteLast.post = remoteLast.before.post
    /\ remoteLast.assets = remoteLast.before.assets
    /\ remoteLast.create_ok

\* C21: a draft_release run that repeats a run which pushed the tag and
\* the commits and failed before the release was created succeeds, and
\* the release it creates has the tag of the version of the first run.
C21_RerunSucceeds ==
    Rerun =>
      /\ remoteLast.error = ""
      /\ hostRelease.exists
      /\ hostRelease.tag_name = TagName(remoteLast.before.version)

\* Without a post version the re-run creates the release for the tag of
\* the first run.
RerunWithoutPost ==
    (Rerun /\ remoteLast.post = << >> /\ remoteLast.error = "")
      => (hostRelease.exists
          /\ hostRelease.tag_name = TagName(remoteLast.before.version))


(***************************************************************************)
(* delete_release removes the assets, then the release.                    *)
(***************************************************************************)
Deleted == delLast.op = "delete" /\ delLast.error = ""

\* The places of the requests of a kind and name in the requests sent.
PlacesOf(kind, name) ==
    {i \in 1..Len(delLast.requests) :
        delLast.requests[i] = [kind |-> kind, name |-> name]}

\* C22: a deletion that succeeds has asked for the deletion of every asset
\* of the release once and then of the release; in any run the release is
\* asked to be deleted only after each of its assets was; after a deletion
\* that succeeds the host holds neither the release nor an asset of it.
C22_AssetsThenRelease ==
    /\ delLast.op = "delete" =>
          \A r \in PlacesOf("release", << >>) :
             \A name \in DOMAIN delLast.releaseBefore.assets :
                \E a \in PlacesOf("asset", name) : a < r
    /\ Deleted =>
          /\ \A name \in DOMAIN delLast.releaseBefore.assets :
                Cardinality(PlacesOf("asset", name)) = 1
          /\ PlacesOf("release", << >>) = {Len(delLast.requests)}
          /\ Len(delLast.requests) = Cardinality(DOMAIN delLast.releaseBefore.assets) + 1
          /\ ~hostRelease.exists
          /\ hostRelease.assets = EmptyDir

C22_Witness ==
    /\ Deleted
    /\ Cardinality(DOMAIN delLast.releaseBefore.assets) = 2
    /\ tampers = 1
    /\ ~hostRelease.exists


(***************************************************************************)
(* forwardport_changelog.                                                  *)
(***************************************************************************)
\* The run found the release of the url.
Forwardported == remoteLast.op = "forwardport" /\ remoteLast.tag # << >>
TagWasMerged == remoteLast.tag \in remoteLast.merged_tags

\* The run left the changelog of the default branch, the commits, the
\* branches and the pull requests as they were, and pushed nothing.
LeftAlone ==
    /\ defaultLog = remoteLast.logBefore
    /\ commits = remoteLast.commitsBefore
    /\ pushedCommits = remoteLast.pushedBefore
    /\ prBranches = remoteLast.branchesBefore
    /\ pulls = remoteLast.pullsBefore

\* C23: a forward port of a release whose tag is reachable from the default
\* branch ends without error and leaves the changelog of the default
\* branch unmodified, commits nothing, pushes nothing and opens no pull
\* request.
C23_MergedIsNoOp ==
    (Forwardported /\ TagWasMerged) => (remoteLast.error = "" /\ LeftAlone)

\* A run that is not a dry run, of a merged tag, where an unmerged one would
\* have been ported.
C23_Witness ==
    /\ Forwardported /\ TagWasMerged /\ ~remoteLast.dry_run
    /\ remoteLast.error = ""
    /\ Contains(defaultLog, <<"0.0.1">>)
    /\ Contains(changelog, <<"0.0.1">>)

\* The lines of the changelog at the tag after its END marker, and those of
\* them that are headings.
LinesAfterEnd ==
    SplitLines(SubSeq(changelog, Find(changelog, <<END_MARKER>>) + 1, Len(changelog)))
IsHeading(line) == Len(Strip(line)) > 0 /\ Strip(line)[1] \in {"#", "# "}
HeadingsAfterEnd == {i \in 1..Len(LinesAfterEnd) : IsHeading(LinesAfterEnd[i])}
Anchor == LinesAfterEnd[CHOOSE i \in HeadingsAfterEnd : \A j \in HeadingsAfterEnd : i <= j]

\* The run came to read the changelog at the tag.
ReadTaggedLog ==
    /\ Forwardported /\ ~TagWasMerged
    /\ remoteLast.tag \in DOMAIN gitTags
    /\ Contains(changelog, <<END_MARKER>>)

\* C24: a forward port fails, leaving the changelog of the default branch
\* unmodified and opening no pull request, when the changelog at the tag has
\* no heading after its END marker, and when the first such heading occurs
\* nowhere in the changelog of the default branch.
C24_NoAnchorFails ==
    (/\ ReadTaggedLog
     /\ \/ HeadingsAfterEnd = {}
        \/ ~Contains(remoteLast.logBefore, Anchor))
      => (remoteLast.error # "" /\ LeftAlone)

\* The anchor is missing from the default branch, not under dry-run.
C24_Witness ==
    /\ ReadTaggedLog /\ ~remoteLast.dry_run
    /\ HeadingsAfterEnd # {}
    /\ ~Contains(remoteLast.logBefore, Anchor)
    /\ remoteLast.error = "Could not find previous header"

\* The changelog at the tag has no heading after END.
NoHeadingAfterEnd ==
    /\ ReadTaggedLog /\ HeadingsAfterEnd = {}
    /\ remoteLast.error = "No anchor for previous entry"

\* The anchor is in the changelog of the default branch and not in its
\* marker region.
AnchorOutsideRegion ==
    /\ ReadTaggedLog
    /\ HeadingsAfterEnd # {}
    /\ WellFormed(remoteLast.logBefore)
    /\ Contains(remoteLast.logBefore, Anchor)
    /\ ~Contains(ExtractCurrent(remoteLast.logBefore), Anchor)

\* The place of the first occurrence of t in s.
FirstPlace(s, t) ==
    CHOOSE k \in 1..Len(s) : OccursAt(s, t, k) /\ \A j \in 1..(k - 1) : ~OccursAt(s, t, j)

\* C25: when the anchor occurs in the changelog of the default branch and not
\* in its marker region, the changelog written is the old one with the entry
\* of the tag (less its leading whitespace) put in just before the first
\* occurrence of the anchor: the text before and after is as it was, and
\* there is still one START and one END marker.
C25_SplicedBeforeAnchor ==
    AnchorOutsideRegion =>
      \A old \in {remoteLast.logBefore} : \A k \in {FirstPlace(old, Anchor)} :
         /\ defaultLog = SubSeq(old, 1, k - 1) \o LStrip(ExtractCurrent(changelog))
                            \o SubSeq(old, k, Len(old))
         /\ Count(defaultLog, <<START_MARKER>>) = 1
         /\ Count(defaultLog, <<END_MARKER>>) = 1
         /\ Find(defaultLog, <<START_MARKER>>) < Find(defaultLog, <<END_MARKER>>)

\* The region of the default branch holds an entry of its own, and the
\* anchor comes after it.
C25_Witness ==
    /\ AnchorOutsideRegion
    /\ remoteLast.error = ""
    /\ Contains(ExtractCurrent(remoteLast.logBefore), <<"2.0.0">>)
    /\ Len(defaultLog) > Len(remoteLast.logBefore)

\* The anchor occurs above the markers as well.
AnchorAboveMarkers ==
    /\ AnchorOutsideRegion
    /\ FirstPlace(remoteLast.logBefore, Anchor) < Find(remoteLast.logBefore, <<START_MARKER>>)


(***************************************************************************)
(* prep_env: is_prerelease and the check of the canonical form.            *)
(***************************************************************************)
\* prep_env ran and read a version back.
PrepRead == gitLast.op = "prep" /\ gitLast.error # "bump failed"
ReadVersion == Tail(gitLast.tag)

\* MAJOR.MINOR.PATCH and nothing else.
IsCore(v) ==
    LET a == DigitRun(v, 1)
        b == DigitRun(v, a + 2)
        c == DigitRun(v, a + b + 3)
    IN  /\ a > 0 /\ a + 1 <= Len(v) /\ v[a + 1] = "."
        /\ b > 0 /\ a + b + 2 <= Len(v) /\ v[a + b + 2] = "."
        /\ c > 0 /\ a + b + c + 2 = Len(v)

\* C26: for every version prep_env accepts as canonical, is_prerelease gives
\* a boolean: false when the version is MAJOR.MINOR.PATCH and nothing else,
\* true when it carries more.
C26_BooleanOnCanonical ==
    (PrepRead /\ IsCanonical(ReadVersion))
      => /\ gitLast.error # "AttributeError"
         /\ IsPrerelease(ReadVersion) = IF IsCore(ReadVersion) THEN "false" ELSE "true"

\* With three numeric components is_prerelease tells the core from the rest.
ThreeComponentsClassified ==
    (PrepRead /\ IsCanonical(ReadVersion) /\ DigitRun(ReadVersion, 1) > 0
       /\ Len(ReadVersion) >= 5 /\ IsCore(SubSeq(ReadVersion, 1, 5)))
      => IsPrerelease(ReadVersion) = IF IsCore(ReadVersion) THEN "false" ELSE "true"

\* C27: when the version read back is not canonical, prep_env on a Python
\* package fails without printing version= or is_prerelease= and without
\* writing the output file; on another package the check is not made.
C27_CanonicalForPythonOnly ==
    (PrepRead /\ ~IsCanonical(ReadVersion))
      => IF setupPy
         THEN /\ gitLast.error = "Invalid version"
              /\ gitLast.printed \cap {"version", "is_prerelease"} = {}
              /\ outputFile = gitLast.outputBefore
         ELSE gitLast.error # "Invalid version"

\* A Python package with a version that is not canonical, in a second run
\* of prep_env.
C27_Witness ==
    /\ PrepRead /\ ~IsCanonical(ReadVersion) /\ setupPy
    /\ gitLast.error = "Invalid version"
    /\ gitLast.bumpsBefore = 1

\* Another package with such a version passes prep_env.
SkippedForNpm ==
    /\ PrepRead /\ ~IsCanonical(ReadVersion) /\ ~setupPy
    /\ gitLast.error = ""
    /\ outputFile # NoText


(***************************************************************************)
(* Two pipelines for one version.                                          *)
(***************************************************************************)
\* The releases created for the tag of the version.
ReleasesOf(version) == {c \in created : c.tag = TagName(version)}

\* C28: of two pipelines that release the same version against one host
\* without dry-run, at most one creates a draft release for the tag of the
\* version; prep_env of a pipeline fails when it fetches the tag from the
\* host, and draft_release of a pipeline whose tag the host has from the
\* other fails at the push.
C28_OneReleasePerVersion ==
    /\ Cardinality(ReleasesOf(V101)) <= 1
    /\ (gitLast.op = "prep" /\ gitLast.error # "bump failed"
          /\ gitLast.tag \in DOMAIN gitLast.tagsBefore)
        => gitLast.error = "Tag already exists"
    /\ (remoteLast.op = "draft-release"
          /\ \E c \in ReleasesOf(remoteLast.version) : c.by # remoteLast.by)
        => remoteLast.error = "git push failed"

\* One pipeline has created the release, the other has tagged the version
\* in its working tree and failed to push.
C28_Witness ==
    /\ Cardinality(ReleasesOf(V101)) = 1
    /\ remoteLast.op = "draft-release" /\ remoteLast.error = "git push failed"
    /\ \E c \in created : c.by # remoteLast.by
    /\ TagName(V101) \in DOMAIN gitTags \cap DOMAIN parked.gitTags

\* The other pipeline came to prep_env after the tag was pushed.
LateAtPrep ==
    /\ Cardinality(ReleasesOf(V101)) = 1
    /\ gitLast.op = "prep" /\ gitLast.error = "Tag already exists"
    /\ \E c \in created : c.by # active


(***************************************************************************)
(* A command that fails.                                                   *)
(***************************************************************************)
\* C29: in an invocation no command is run after one that failed, and the
\* invocation fails when a command of it did.
C29_FirstFailureAborts ==
    cmdLast.op # "none" =>
      /\ \A i \in 1..(Len(cmdLast.commands) - 1) : cmdLast.commands[i].ok
      /\ (\E i \in 1..Len(cmdLast.commands) : ~cmdLast.commands[i].ok)
           => cmdLast.error # ""

\* check_links whose pytest run succeeds runs it once.
OneRunWhenLinksPass ==
    (cmdLast.op = "check-links" /\ cmdLast.commands[1].ok)
      => (Len(cmdLast.commands) = 1 /\ cmdLast.error = "")


(***************************************************************************)
(* publish_release: one publisher command per package file.                *)
(***************************************************************************)
\* The run went through its loop over the output directory.
LoopCompleted ==
    Published /\ pubLast.error \notin {"Release url is not valid", "upload failed"}

\* The commands of the run that were given the file.
HandedOf(name) == {i \in 1..Len(pubLast.handed) : pubLast.handed[i][2] = name}

\* C30: a publish_release run that goes through its loop has run one
\* publisher command for each file of the output directory that ends in
\* .gz, .whl or .tgz, twine for the first two and npm for the last, and none
\* for any other file; no run gives a file to a publisher twice or to the
\* publisher of another suffix.
C30_OneCommandPerFile ==
    Published =>
      /\ \A i \in 1..Len(pubLast.handed) :
            /\ pubLast.handed[i][2] \in DOMAIN dist
            /\ Cardinality(HandedOf(pubLast.handed[i][2])) = 1
            /\ pubLast.handed[i][1] =
                  IF Suffix(pubLast.handed[i][2]) = ".tgz" THEN "npm" ELSE "twine"
            /\ Suffix(pubLast.handed[i][2]) \in {".gz", ".whl", ".tgz"}
      /\ LoopCompleted =>
            \A name \in DOMAIN dist :
               Suffix(name) \in {".gz", ".whl", ".tgz"} => HandedOf(name) # {}

\* A run over a wheel, a source archive, an npm tarball and two files of
\* no package type.
C30_Witness ==
    /\ LoopCompleted /\ pubLast.error = ""
    /\ DOMAIN dist = PubNames
    /\ Len(pubLast.handed) = 3


(***************************************************************************)
(* The digest of a file.                                                   *)
(***************************************************************************)
Digested == shaLast.op = "digest"
Unmodified == Digested /\ shaLast.edited = {}
SameFileAgain == Unmodified /\ shaLast.before.name = shaLast.name

\* C31: the digest of a file is 64 hexadecimal digits in lower case; it is
\* the hash of the whole content taken in one pass, whatever the number of
\* chunks read; a second computation on the file unmodified gives the same
\* digest, and one after the change of a single byte another.
C31_DigestOfWholeFile ==
    /\ Digested =>
          /\ Len(shaLast.chars) = 64
          /\ \A i \in 1..64 :
                shaLast.chars[i] \in {"0", "1", "2", "3", "4", "5", "6", "7", "8", "9",
                                      "a", "b", "c", "d", "e", "f"}
    /\ Unmodified =>
          \A h \in {Sha256Update(0, dist[shaLast.name])} :
              shaLast.digest = HexDigest(h) /\ shaLast.chars = HexDigits(h, 64)
    /\ SameFileAgain =>
          /\ shaLast.before.edited = {} => shaLast.before.digest = shaLast.digest
          /\ Cardinality(shaLast.before.edited) = 1
                => shaLast.before.digest # shaLast.digest

\* A file of more than one chunk, digested before and after the change of a
\* byte of its second chunk.
C31_Witness ==
    /\ SameFileAgain
    /\ shaLast.size > BUF_SIZE
    /\ shaLast.before.edited = {BUF_SIZE + 1}

\* A file of more than one chunk digested twice unmodified.
DigestedTwice ==
    /\ SameFileAgain
    /\ shaLast.size > BUF_SIZE
    /\ shaLast.before.edited = {}


(***************************************************************************)
(* Publication before the release leaves draft.                            *)
(***************************************************************************)
\* The files of the run that have a publisher, in the order of the loop.
RECURSIVE RecognizedInOrder(_)
RecognizedInOrder(files) ==
    IF Len(files) = 0 THEN << >>
    ELSE (IF Publisher(files[1]) = "none" THEN << >>
          ELSE <<(<<Publisher(files[1]), files[1]>>)>>) \o RecognizedInOrder(Tail(files))

UploadFailed == Published /\ pubLast.error = "upload failed"
Finalized == Published /\ updates = pubLast.updatesBefore + 1

\* C32: the release is updated only by a run that handed every recognized
\* file of the output directory to its publisher with success; a run in which
\* a publisher command fails stops at that file, sends no update and leaves
\* the release as it was, a draft if it was one.
C32_DraftUntilAllPublished ==
    /\ Finalized =>
          /\ pubLast.error = ""
          /\ pubLast.handed = RecognizedInOrder(pubLast.files)
    /\ (Published /\ ~Finalized) =>
          /\ pubLast.error # ""
          /\ updates = pubLast.updatesBefore
          /\ hostRelease = pubLast.releaseBefore
    /\ UploadFailed =>
          /\ Len(pubLast.handed) \in 1..Len(RecognizedInOrder(pubLast.files))
          /\ pubLast.handed = SubSeq(RecognizedInOrder(pubLast.files), 1, Len(pubLast.handed))

\* The first of several publisher commands failed on a draft release: a
\* partial publication, and the release is a draft.
C32_Witness ==
    /\ UploadFailed
    /\ ~pubLast.dry_run
    /\ Len(pubLast.handed) = 1
    /\ Len(RecognizedInOrder(pubLast.files)) > 1
    /\ pubLast.releaseBefore.exists
    /\ hostRelease.draft


(***************************************************************************)
(* The commit of the release tag.                                          *)
(***************************************************************************)
Tagged == gitLast.op = "tag" /\ gitLast.error = ""

\* The message has a line "{path}: {sha256}" for the file.
HasShaLine(message, dir, name) ==
    \E i \in 1..Len(SplitLines(message)) : SplitLines(message)[i] = ShaLine(dir, name)

\* C33: after tag_release the tag v{version} points to the release commit,
\* whose message has a checksum line for every file the output directory
\* held; draft_release leaves the tag on that commit in the working tree,
\* with a version bump commit on top or without, and the host has the tag on
\* that commit once draft_release has pushed.
C33_TagOnReleaseCommit ==
    Tagged =>
      /\ gitLast.tag \in DOMAIN gitTags
      /\ gitTags[gitLast.tag] = gitLast.commit
      /\ gitLast.commit.files = gitLast.dist
      /\ \A name \in DOMAIN gitLast.dist :
            HasShaLine(gitLast.commit.message, gitLast.dist, name)
      /\ pushedCommits > gitLast.commitsBefore
            => (/\ gitLast.tag \in DOMAIN hostTags
                /\ hostTags[gitLast.tag] = gitLast.commit)

\* Two files tagged, then a draft_release that committed the bump to the
\* post version and pushed.
C33_Witness ==
    /\ Tagged
    /\ Drafted
    /\ ~remoteLast.dry_run
    /\ remoteLast.post = V102dev0
    /\ commits = gitLast.commitsBefore + 2
    /\ pkgVersion = V102dev0
    /\ Cardinality(DOMAIN gitLast.dist) = 2
    /\ gitLast.tag # TagName(pkgVersion)
    /\ hostTags[gitLast.tag] = gitLast.commit


(***************************************************************************)
(* The package check and the checksum verification of extract_release.    *)
(***************************************************************************)
Extracted == exLast.op = "extract"

\* C34: in an extract_release run without dry-run every asset handed to a
\* package check has had its checksum verified against the message of the
\* tagged commit before.
C34_VerifiedBeforeChecked ==
    (Extracted /\ ~exLast.dry_run) =>
      \A i \in 1..Len(exLast.steps) :
        exLast.steps[i][1] = "check" =>
          \E j \in 1..(i - 1) : exLast.steps[j] = <<"verify", exLast.steps[i][2]>>

\* An asset the host serves with other bytes than those tagged was handed to
\* its package check, and the verification that follows rejects it.
CheckedThenInvalid ==
    /\ Extracted /\ ~exLast.dry_run
    /\ exLast.error = "Invalid file"
    /\ <<"check", exLast.asset>> \in {exLast.steps[i] : i \in 1..Len(exLast.steps)}


(***************************************************************************)
(* What the pruning of draft_release leaves.                               *)
(***************************************************************************)
DraftRan == remoteLast.op = "draft-release"

\* A release made less than a day ago.
Fresh(release) == release.created_at > -24

UrlRejected ==
    remoteLast.op = "forwardport" /\ remoteLast.error = "Release url is not valid"

\* C36: a phase that rejects its release url has had no effect before: a
\* forwardport_changelog run that ends with the url rejected has fetched
\* nothing into the working tree, and has left the host and the changelog of
\* the default branch as they were.
C36_RejectedBeforeEffect ==
    UrlRejected =>
      /\ remoteLast.fetched = {}
      /\ defaultLog = remoteLast.logBefore
      /\ commits = remoteLast.commitsBefore
      /\ hostTags = remoteLast.tagsBefore
      /\ pulls = remoteLast.pullsBefore

\* The url was rejected after the fetch of the tags of the host.
FetchedThenRejected == UrlRejected /\ remoteLast.fetched # {}


(***************************************************************************)
(* prep_changelog run twice.                                               *)
(***************************************************************************)
\* The second of two runs with the version and the activity feed of the
\* first, the document between them being what the first wrote.
Rebuilt(prs) ==
    /\ clLast.op = "build" /\ clLast.error = ""
    /\ clRuns = 2
    /\ clLast.entry = GetChangelogEntry(clLast.version, ActivityMd(prs))
    /\ \E first \in {PrepChangelog(clOrig, clLast.version, ActivityMd(prs))} :
          first.error = "" /\ clLast.prev = first.doc

\* C37: a second prep_changelog run with the version and the generated
\* entry of the first, on the document the first wrote, writes that document
\* again.
C37_SecondRunChangesNothing ==
    \A prs \in RebuildPrSeqs : Rebuilt(prs) => changelog = clLast.prev

\* The second run wrote the line of pull request 4, which cites [#1], in
\* the place of the line of pull request 1.
RebuiltDiffers ==
    /\ Rebuilt(<<1, 4>>)
    /\ changelog # clLast.prev
    /\ ~Contains(changelog, <<Title(1)>>)
    /\ Contains(clLast.prev, <<Title(1)>>)

\* Run twice over pull requests 1 and 2, the document is what it was.
RebuiltSame == Rebuilt(<<1, 2>>) /\ changelog = clLast.prev


(***************************************************************************)
(* The lines the merge writes.                                             *)
(***************************************************************************)
MergeRan == clLast.op = "build" /\ clLast.error = "" /\ clLast.path = "merge"

\* The lines of the new entry: the markers, the blank lines and the lines
\* of the generated entry.
GeneratedLines ==
    SplitLines(<<START_MARKER, NL, NL>> \o clLast.entry \o <<NL, NL, END_MARKER>>)

LinesOf(lines) == {lines[i] : i \in 1..Len(lines)}

\* C38: after the merge branch of prep_changelog the marker region has as
\* many lines as the new entry, each the generated line of its place or a
\* line of the old region with the PR reference of that generated line; a
\* line of the old region that has no PR reference of the generated entry is
\* in the new region only where the generated line is the same.
C38_MergeWritesGeneratedLines ==
    MergeRan =>
      LET old == RegionLines(clLast.prev)
          gen == GeneratedLines
          new == RegionLines(changelog)
      IN  /\ Len(new) = Len(gen)
          /\ \A i \in 1..Len(gen) :
                \/ new[i] = gen[i]
                \/ /\ FirstPrRef(gen[i]) # ""
                   /\ new[i] \in LinesOf(old)
                   /\ Contains(new[i], <<FirstPrRef(gen[i])>>)
          /\ \A j \in 1..Len(old) :
                (RefsOf(old[j]) \cap RefsOf(clLast.entry) = {} /\ old[j] \notin LinesOf(gen))
                  => old[j] \notin LinesOf(new)

\* The merge kept the reworded line of pull request 1 and dropped the line
\* of pull request 2, which the generated entry does not have.
C38_Witness ==
    /\ MergeRan
    /\ RefsOf(clLast.entry) = {PrRef(1)}
    /\ Contains(PrevEntry(clLast.prev), <<EditedTitle(1)>>)
    /\ Contains(PrevEntry(clLast.prev), <<PrRef(2)>>)
    /\ Contains(PrevEntry(changelog), <<EditedTitle(1)>>)
    /\ ~Contains(PrevEntry(changelog), <<PrRef(2)>>)


(***************************************************************************)
(* The old marker region after the first insertion.                        *)
(***************************************************************************)
\* What stood between the START and the END marker of a document.
RegionBody(doc) ==
    SubSeq(doc, Find(doc, <<START_MARKER>>) + 1, Find(doc, <<END_MARKER>>) - 1)

====
